---- MODULE Spec2Model ----
(***************************************************************************)
(* Cipher lifecycle of the 2701 server: the redis-backed store             *)
(* (KVStoreService), the guess and rally request handlers and the          *)
(* expireCiphers scheduler job with its expiration handling.               *)
(*                                                                         *)
(* Time is Date.now() in milliseconds.  The clock jumps to the start of a  *)
(* stored cipher's lockdown window and from there on moves in steps of     *)
(* one lockdown window, so that the hours of a cipher's budget need not    *)
(* be walked.                                                              *)
(* Clock steps and scheduler jobs are counted from the first stored        *)
(* cipher: on an empty store neither has any effect.                       *)
(***************************************************************************)
EXTENDS Integers, Sequences, FiniteSets, Bags, TLC

\* ------------------------------------------------------------------ bounds
NumUsers == 2
MaxCiphers == 1
MaxGuesses == 2
MaxRallies == 2
MaxTicks == 2
MaxClockSteps == 2
MaxSnapshot == 3

Users == 1..NumUsers
CipherIds == 1..MaxCiphers
GuessIds == 1..MaxGuesses

\* ------------------------------------------------------- program constants
LOCKDOWN_MS == 10000
RALLY_LIMIT == 10
GUESS_LIMIT == 5
RATE_TTL_S == 60
UNLOCK_THRESHOLD == 50
HOUR_MS == 60 * 60 * 1000
TimeStep == LOCKDOWN_MS

Difficulties == {"Easy", "Medium", "Hard"}
Categories == {"privacy", "auditing", "patents"}

\* The (difficulty, thematic category) pairs the modelled generator produces.
CipherInputs == {<<"Easy", "privacy">>, <<"Hard", "patents">>}

\* One time limit for every difficulty.
getTimeLimitFlat(d) == 3

getTimeLimitForDifficulty(d) ==
    CASE d = "Easy" -> 3
      [] d = "Medium" -> 4
      [] d = "Hard" -> 5

VARIABLES
    now,            \* Date.now()
    clockSteps,     \* number of clock advances so far (bounds the run)
    ciphers,        \* cipher:<id> hashes: id -> record
    activeIds,      \* active_cipher_id:<i>, i = 1..active_cipher_count
    guesses,        \* guess:<id> hashes: id -> record
    cipherGuesses,  \* cipher_guess:<cipherId>:<i>, i = 1..cipher_guess_count
    userRallies,    \* user_rally:<userId>:<i> -> rally record
    rateLimit,      \* rate_limit:<kind>:<user> keys with their TTL
    profiles,       \* user:<id> hashes (solves_count), absent until created
    breadcrumbs,    \* breadcrumb:<id> hashes, one per saveBreadcrumb
    breadcrumbCount,\* global_breadcrumb_count and breadcrumb_count:<category>
    realtime,       \* cipher_lockdown and cipher_expired messages sent on
                    \* channel cipher_<id>, in order
    rallyUpdates,   \* rally_update messages: per guess, the counts sent
    comments,       \* solution comments posted, in order
    rallyReqs,      \* POST /api/rally-guess requests in flight (a bag)
    rallyAnswers,   \* per (user, guess): the requests answered 200 and 404
    sched,          \* the expireCiphers job: position and local variables
    pool,           \* fallback_cipher_pool: the stored reserve of ciphers
    solutionHashes, \* solution_hash:<hash> keys: solution -> cipher id
    backupMode,     \* backup_mode key
    uuids,          \* number of pools built so far (their ciphers' uuidv4 ids)
    gens,           \* generateCipher calls: position and local variables
    client          \* a browser showing the guesses of a cipher: its
                    \* realtime connection and the counts on display

clockVars == <<now, clockSteps>>
cipherVars == <<ciphers, activeIds>>
guessVars == <<guesses, cipherGuesses>>
narrativeVars == <<breadcrumbs, breadcrumbCount>>
outVars == <<realtime, rallyUpdates, comments>>
reqVars == <<rallyReqs, rallyAnswers>>
genVars == <<pool, solutionHashes, backupMode, uuids, gens>>

vars == <<clockVars, cipherVars, guessVars, userRallies, rateLimit, profiles,
          narrativeVars, outVars, reqVars, sched, genVars, client>>

\* ----------------------------------------------------------------- helpers
RECURSIVE SumOver(_, _)
SumOver(S, f) ==
    IF S = {} THEN 0
    ELSE LET x == CHOOSE y \in S : TRUE
         IN f[x] + SumOver(S \ {x}, f)

Msg(type, timeRemaining, winner) ==
    [type |-> type, timeRemaining |-> timeRemaining, winner |-> winner]

\* In the bag of requests in flight, request r moves on to r2.
Moved(reqs, r, r2) == (reqs (-) SetToBag({r})) (+) SetToBag({r2})

\* redis.get of a key with a TTL: an expired key reads as absent (0).
RateRead(kind, u) ==
    LET k == rateLimit[kind][u]
    IN IF now < k.expireAt THEN k.count ELSE 0

\* redis.incrBy(key, 1) followed by redis.expire(key, 60).
RateBump(kind, u) ==
    [rateLimit EXCEPT ![kind][u] =
        [count |-> RateRead(kind, u) + 1, expireAt |-> now + RATE_TTL_S * 1000]]

\* ------------------------------------------------------------ KVStoreService
saveCipher(c) ==
    /\ ciphers' = (c.id :> c) @@ ciphers
    /\ activeIds' = IF c.isActive THEN Append(activeIds, c.id) ELSE activeIds

CipherStored(id) == id \in DOMAIN ciphers

\* Array.prototype.sort is stable: each element is inserted after every
\* element the comparator does not order behind it.
CreatedCompare(a, b) == a.createdAt - b.createdAt

RallyCompare(a, b) == b.rallyCount - a.rallyCount

WinnerCompareLatest(a, b) ==
    IF b.rallyCount # a.rallyCount
    THEN b.rallyCount - a.rallyCount
    ELSE b.createdAt - a.createdAt

WinnerCompare(a, b) ==
    IF b.rallyCount # a.rallyCount
    THEN b.rallyCount - a.rallyCount
    ELSE a.createdAt - b.createdAt

Compare(kind, a, b) ==
    CASE kind = "created" -> CreatedCompare(a, b)
      [] kind = "rally" -> RallyCompare(a, b)
      [] kind = "winner" -> WinnerCompare(a, b)

RECURSIVE InsertSorted(_, _, _)
InsertSorted(kind, x, s) ==
    IF s = <<>> THEN <<x>>
    ELSE IF Compare(kind, Head(s), x) <= 0
         THEN <<Head(s)>> \o InsertSorted(kind, x, Tail(s))
         ELSE <<x>> \o s

RECURSIVE StableSort(_, _)
StableSort(kind, s) ==
    IF s = <<>> THEN <<>>
    ELSE InsertSorted(kind, s[Len(s)], StableSort(kind, SubSeq(s, 1, Len(s) - 1)))

getActiveCiphersUnfiltered(t) ==
    LET listed == SelectSeq(activeIds, LAMBDA id : CipherStored(id))
    IN StableSort("created", [i \in 1..Len(listed) |-> ciphers[listed[i]]])

getActiveCiphers(t) ==
    LET listed == SelectSeq(activeIds,
                    LAMBDA id : /\ CipherStored(id)
                                /\ ciphers[id].isActive
                                /\ ciphers[id].expiresAt > t)
    IN StableSort("created", [i \in 1..Len(listed) |-> ciphers[listed[i]]])

expireCipher(id) == [ciphers EXCEPT ![id].isActive = FALSE]

saveGuess(guess) ==
    /\ guesses' = (guess.id :> guess) @@ guesses
    /\ cipherGuesses' = [cipherGuesses EXCEPT ![guess.cipherId] = Append(@, guess.id)]

getCipherGuesses(cid) ==
    LET ids == SelectSeq(cipherGuesses[cid], LAMBDA g : g \in DOMAIN guesses)
    IN StableSort("rally", [i \in 1..Len(ids) |-> guesses[ids[i]]])

incrementRallyCountLost(gs, g) == [gs EXCEPT ![g].rallyCount = 1]

\* A read-modify-write of the whole hash in place of hIncrBy: the write puts
\* back the isWinner the submission stored.
incrementRallyCountRewrite(gs, g) ==
    [gs EXCEPT ![g].rallyCount = @ + 1, ![g].isWinner = FALSE]

incrementRallyCount(gs, g) == [gs EXCEPT ![g].rallyCount = @ + 1]

addRally(rally) ==
    [userRallies EXCEPT ![rally.userId] = Append(@, rally)]

\* A scan that looks at the user's latest rally alone.
hasUserRalliedLatest(u, g) ==
    /\ userRallies[u] # <<>>
    /\ userRallies[u][Len(userRallies[u])].guessId = g

hasUserRallied(u, g) ==
    \E i \in 1..Len(userRallies[u]) : userRallies[u][i].guessId = g

incrementUserSolves(userId) ==
    IF profiles[userId].exists
    THEN [profiles EXCEPT ![userId].solves_count = @ + 1]
    ELSE profiles

saveBreadcrumb(breadcrumb) ==
    /\ breadcrumbs' = Append(breadcrumbs, breadcrumb)
    /\ breadcrumbCount' = [breadcrumbCount EXCEPT
                             !.total = @ + 1,
                             ![breadcrumb.thematic_category] = @ + 1]

\* ---------------------------------------------------------------- initially
\* No page open.
\* RealtimeService as constructed: its fields, the connections it has
\* asked for (conns), the timers that are running (pollTimers, timers), and
\* where its component stands (phase).
RtIdle ==
    [phase |-> "new", isConnected |-> FALSE, isReconnecting |-> FALSE,
     connection |-> 0, conns |-> <<>>,
     fallbackInterval |-> FALSE, pollTimers |-> 0,
     reconnectTimeout |-> "null", timers |-> 0, delay |-> 0, scheduled |-> 0,
     reconnectAttempts |-> 0]

ClientIdle ==
    [mounted |-> FALSE, connected |-> FALSE, shown |-> <<>>, seen |-> <<>>,
     polled |-> <<>>, rt |-> RtIdle, requests |-> 0, answer |-> <<>>]

\* No stored pool, no registered solution, no call made.
GenIdle ==
    /\ pool = [present |-> FALSE, items |-> <<>>]
    /\ solutionHashes = <<>>
    /\ backupMode = FALSE
    /\ uuids = 0
    /\ gens = <<>>

SchedIdle ==
    [pc |-> "idle", ticks |-> 0, active |-> <<>>, idx |-> 0, now |-> 0,
     guesses |-> <<>>, winner |-> <<>>, expiredCount |-> 0, lockedCount |-> 0]

Init ==
    /\ now = 0
    /\ clockSteps = 0
    /\ ciphers = <<>>
    /\ activeIds = <<>>
    /\ guesses = <<>>
    /\ cipherGuesses = [c \in CipherIds |-> <<>>]
    /\ userRallies = [u \in Users |-> <<>>]
    /\ rateLimit = [k \in {"rally", "guess"} |->
                      [u \in Users |-> [count |-> 0, expireAt |-> 0]]]
    /\ profiles = [u \in Users |-> [exists |-> FALSE, solves_count |-> 0]]
    /\ breadcrumbs = <<>>
    /\ breadcrumbCount = [total |-> 0, privacy |-> 0, auditing |-> 0, patents |-> 0]
    /\ realtime = [c \in CipherIds |-> <<>>]
    /\ rallyUpdates = [g \in GuessIds |-> <<>>]
    /\ comments = <<>>
    /\ rallyReqs = EmptyBag
    /\ rallyAnswers = [u \in Users |-> [g \in GuessIds |->
                         [accepted |-> 0, notfound |-> 0]]]
    /\ sched = SchedIdle
    /\ GenIdle
    /\ client = ClientIdle

\* -------------------------------------------------------------------- clock
LockdownStarts == {ciphers[c].expiresAt - LOCKDOWN_MS : c \in DOMAIN ciphers}

AdvanceTime ==
    /\ clockSteps < MaxClockSteps
    /\ \E t \in {s \in LockdownStarts : s > now}
                  \cup {now + TimeStep : s \in {x \in LockdownStarts : x <= now}} :
         now' = t
    /\ clockSteps' = clockSteps + 1
    /\ UNCHANGED <<client, genVars, cipherVars, guessVars, userRallies, rateLimit, profiles,
                   narrativeVars, outVars, reqVars, sched>>

\* ------------------------------------------------------- cipher generation
\* POST /internal/scheduler/generateCipher and POST /api/generate-cipher: a
\* new cipher with a fresh id, stamped now, is stored as active.
GenerateCipher ==
    /\ Cardinality(DOMAIN ciphers) < MaxCiphers
    /\ \E in \in CipherInputs :
         LET timeLimit == getTimeLimitForDifficulty(in[1])
             cipher == [id |-> Cardinality(DOMAIN ciphers) + 1,
                        difficulty |-> in[1],
                        timeLimit |-> timeLimit,
                        createdAt |-> now,
                        expiresAt |-> now + timeLimit * HOUR_MS,
                        isActive |-> TRUE,
                        category |-> in[2],
                        narrative_thread_id |->
                            <<"uuid", Cardinality(DOMAIN ciphers) + 1>>]
         IN saveCipher(cipher)
    /\ UNCHANGED <<client, genVars, clockVars, guessVars, userRallies, rateLimit, profiles,
                   narrativeVars, outVars, reqVars, sched>>

\* ------------------------------------------------------ GET /api/user/profile
\* The request commutes with every step but incrementUserSolves, the only
\* reader of a profile here, so it is taken right before that step.
UserProfile(u) ==
    /\ ~profiles[u].exists
    /\ sched.pc = "userSolves"
    /\ sched.winner[1].userId = u
    /\ profiles' = [profiles EXCEPT ![u] = [exists |-> TRUE, solves_count |-> 0]]
    /\ UNCHANGED <<client, genVars, clockVars, cipherVars, guessVars, userRallies, rateLimit,
                   narrativeVars, outVars, reqVars, sched>>

\* ---------------------------------------------------- POST /api/submit-guess
\* The text is taken to pass validateGuess.  A rejected request (429, 404,
\* 400) writes nothing.
SubmitAccepted(u, cid) ==
    /\ ~(RateRead("guess", u) >= GUESS_LIMIT)
    /\ CipherStored(cid)
    /\ ~(~ciphers[cid].isActive \/ ciphers[cid].expiresAt <= now)

SubmitGuessWithin(u, cid, cap) ==
    /\ Cardinality(DOMAIN guesses) < cap
    /\ SubmitAccepted(u, cid)
    /\ saveGuess([id |-> Cardinality(DOMAIN guesses) + 1,
                  cipherId |-> cid,
                  userId |-> u,
                  rallyCount |-> 0,
                  createdAt |-> now,
                  isWinner |-> FALSE])
    /\ rateLimit' = RateBump("guess", u)
    /\ UNCHANGED <<client, genVars, clockVars, cipherVars, userRallies, profiles,
                   narrativeVars, outVars, reqVars, sched>>

SubmitGuess(u, cid) == SubmitGuessWithin(u, cid, MaxGuesses)

\* ----------------------------------------------------- POST /api/rally-guess
\* The request arrives: the rate limit is read and hasUserRallied scans the
\* user's rallies.  A request rejected here (429, 400) writes nothing; one
\* that passes builds its rally record and goes on to read the guess.
\* Guess ids are random strings: a client rallies only for ids it was shown.
\* RallyRejection is the status of the rejection, 0 when there is none.
RallyRejection(u, g) ==
    IF RateRead("rally", u) >= RALLY_LIMIT THEN 429
    ELSE IF hasUserRallied(u, g) THEN 400
    ELSE 0

RallyPasses(u, g) == RallyRejection(u, g) = 0

RalliesStarted ==
    BagCardinality(rallyReqs)
      + SumOver(Users \X GuessIds,
                [p \in Users \X GuessIds |->
                   rallyAnswers[p[1]][p[2]].accepted
                     + rallyAnswers[p[1]][p[2]].notfound])

RallyBeginWhen(u, g, room) ==
    /\ room
    /\ g \in DOMAIN guesses
    /\ RallyPasses(u, g)
    /\ rallyReqs' = rallyReqs (+) SetToBag({[userId |-> u, guessId |-> g,
                                             createdAt |-> now,
                                             pc |-> "checked",
                                             cipherId |-> 0]})
    /\ UNCHANGED <<client, genVars, clockVars, cipherVars, guessVars, userRallies, rateLimit,
                   profiles, narrativeVars, outVars, rallyAnswers, sched>>

RallyBegin(u, g) == RallyBeginWhen(u, g, RalliesStarted < MaxRallies)

\* redis.hGetAll(guess:<id>), then addRally, or 404 when the guess is unknown.
RallyAdd(r) ==
    /\ r.pc = "checked"
    /\ IF r.guessId \notin DOMAIN guesses
       THEN /\ rallyReqs' = rallyReqs (-) SetToBag({r})
            /\ rallyAnswers' = [rallyAnswers EXCEPT
                                  ![r.userId][r.guessId].notfound = @ + 1]
            /\ UNCHANGED userRallies
       ELSE /\ userRallies' = addRally([guessId |-> r.guessId,
                                        userId |-> r.userId,
                                        createdAt |-> r.createdAt])
            /\ rallyReqs' = Moved(rallyReqs, r,
                              [r EXCEPT !.pc = "added",
                                        !.cipherId = guesses[r.guessId].cipherId])
            /\ UNCHANGED rallyAnswers
    /\ UNCHANGED <<client, genVars, clockVars, cipherVars, guessVars, rateLimit, profiles,
                   narrativeVars, outVars, sched>>

\* incrementRallyCount, the rally_update message, the rate-limit counter and
\* the 200 answer.
RallyIncrement(r) ==
    /\ r.pc = "added"
    /\ LET after == incrementRallyCount(guesses, r.guessId)
       IN /\ guesses' = after
          /\ rallyUpdates' = [rallyUpdates EXCEPT ![r.guessId] =
                                Append(@, after[r.guessId].rallyCount)]
    /\ rateLimit' = RateBump("rally", r.userId)
    /\ rallyReqs' = rallyReqs (-) SetToBag({r})
    /\ rallyAnswers' = [rallyAnswers EXCEPT
                          ![r.userId][r.guessId].accepted = @ + 1]
    /\ UNCHANGED <<client, genVars, clockVars, cipherVars, cipherGuesses, userRallies, profiles,
                   narrativeVars, realtime, comments, sched>>

\* ------------------------------------------------- handleCipherExpiration
\* The winner among the guesses read: highest rallyCount, ties to the earliest
\* createdAt, and nobody when the best guess has no rally.  The result is a
\* sequence holding the winner, or empty for null.
DetermineWinnerNoZeroRule(gs) ==
    IF Len(gs) > 0 THEN <<StableSort("winner", gs)[1]>> ELSE <<>>

DetermineWinner(gs) ==
    IF Len(gs) > 0
    THEN LET sortedGuesses == StableSort("winner", gs)
             winner == sortedGuesses[1]
         IN IF winner.rallyCount = 0 THEN <<>> ELSE <<winner>>
    ELSE <<>>

generateBreadcrumb(cipher, winner) ==
    saveBreadcrumb([cipherId |-> cipher.id,
                    narrative_thread_id |-> cipher.narrative_thread_id,
                    reveal_threshold |-> UNLOCK_THRESHOLD,
                    thematic_category |-> cipher.category,
                    solvedBy |-> winner.userId,
                    collected_timestamp |-> now])

\* --------------------------------- POST /internal/scheduler/expireCiphers
SchedCipher == sched.active[sched.idx]

\* After the body of the loop: the next cipher, or the answer of the job
\* (its now and counts stay on record until the next job starts).
SchedAdvance(s) ==
    IF s.idx < Len(s.active)
    THEN [s EXCEPT !.idx = @ + 1, !.pc = "visit",
                   !.guesses = <<>>, !.winner = <<>>]
    ELSE [s EXCEPT !.pc = "idle", !.idx = 0, !.active = <<>>,
                   !.guesses = <<>>, !.winner = <<>>]

\* The job starts and getActiveCiphers reads the store.
SchedStartWhen(room) ==
    /\ sched.pc = "idle"
    /\ room
    /\ ciphers # <<>>
    /\ sched' = [SchedIdle EXCEPT !.pc = "readNow",
                                  !.ticks = sched.ticks + 1,
                                  !.active = getActiveCiphers(now)]
    /\ UNCHANGED <<client, genVars, clockVars, cipherVars, guessVars, userRallies, rateLimit,
                   profiles, narrativeVars, outVars, reqVars>>

SchedStart == SchedStartWhen(sched.ticks < MaxTicks)

\* const now = Date.now(), after the reads of getActiveCiphers.
SchedReadNow ==
    /\ sched.pc = "readNow"
    /\ sched' = SchedAdvance([sched EXCEPT !.now = now])
    /\ UNCHANGED <<client, genVars, clockVars, cipherVars, guessVars, userRallies, rateLimit,
                   profiles, narrativeVars, outVars, reqVars>>

\* A window of 4 seconds, shorter than the period of the job.
InShortLockdown(timeRemaining) == timeRemaining <= 4000 /\ timeRemaining > 0

\* timeRemaining <= 10000 && timeRemaining > 0
InLockdown(timeRemaining) == timeRemaining <= LOCKDOWN_MS /\ timeRemaining > 0

\* One pass of the loop up to its first await: the lockdown message inside
\* the last LOCKDOWN_MS, or, at or past expiresAt, the guesses of the cipher.
SchedVisit ==
    /\ sched.pc = "visit"
    /\ LET cipher == SchedCipher
           timeRemaining == cipher.expiresAt - sched.now
       IN IF InLockdown(timeRemaining)
          THEN /\ realtime' = [realtime EXCEPT ![cipher.id] =
                                 Append(@, Msg("cipher_lockdown",
                                               cipher.expiresAt - now, <<>>))]
               /\ sched' = SchedAdvance([sched EXCEPT !.lockedCount = @ + 1])
          ELSE IF cipher.expiresAt <= sched.now
          THEN /\ sched' = [sched EXCEPT !.pc = "determine",
                                         !.guesses = getCipherGuesses(cipher.id)]
               /\ UNCHANGED realtime
          ELSE /\ sched' = SchedAdvance(sched)
               /\ UNCHANGED realtime
    /\ UNCHANGED <<client, genVars, clockVars, cipherVars, guessVars, userRallies, rateLimit,
                   profiles, narrativeVars, rallyUpdates, comments, reqVars>>

SchedDetermine ==
    /\ sched.pc = "determine"
    /\ sched' = [sched EXCEPT !.pc = "markExpired",
                              !.winner = DetermineWinner(sched.guesses)]
    /\ UNCHANGED <<client, genVars, clockVars, cipherVars, guessVars, userRallies, rateLimit,
                   profiles, narrativeVars, outVars, reqVars>>

SchedMarkExpired ==
    /\ sched.pc = "markExpired"
    /\ ciphers' = expireCipher(SchedCipher.id)
    /\ sched' = [sched EXCEPT !.pc = "sendExpired"]
    /\ UNCHANGED <<client, genVars, clockVars, activeIds, guessVars, userRallies, rateLimit,
                   profiles, narrativeVars, outVars, reqVars>>

SchedSendExpired ==
    /\ sched.pc = "sendExpired"
    /\ realtime' = [realtime EXCEPT ![SchedCipher.id] =
                      Append(@, Msg("cipher_expired", 0, sched.winner))]
    /\ sched' = [sched EXCEPT !.pc = IF sched.winner # <<>>
                                     THEN "markWinner" ELSE "comment"]
    /\ UNCHANGED <<client, genVars, clockVars, cipherVars, guessVars, userRallies, rateLimit,
                   profiles, narrativeVars, rallyUpdates, comments, reqVars>>

\* redis.hSet(guess:<winner.id>, {isWinner: 'true'})
SchedMarkWinner ==
    /\ sched.pc = "markWinner"
    /\ guesses' = [guesses EXCEPT ![sched.winner[1].id].isWinner = TRUE]
    /\ sched' = [sched EXCEPT !.pc = "userSolves"]
    /\ UNCHANGED <<client, genVars, clockVars, cipherVars, cipherGuesses, userRallies, rateLimit,
                   profiles, narrativeVars, outVars, reqVars>>

\* incrementUserSolves; updateRallyStats only logs.
SchedUserSolves ==
    /\ sched.pc = "userSolves"
    /\ profiles' = incrementUserSolves(sched.winner[1].userId)
    /\ sched' = [sched EXCEPT !.pc = "breadcrumb"]
    /\ UNCHANGED <<client, genVars, clockVars, cipherVars, guessVars, userRallies, rateLimit,
                   narrativeVars, outVars, reqVars>>

SchedBreadcrumb ==
    /\ sched.pc = "breadcrumb"
    /\ generateBreadcrumb(SchedCipher, sched.winner[1])
    /\ sched' = [sched EXCEPT !.pc = "comment"]
    /\ UNCHANGED <<client, genVars, clockVars, cipherVars, guessVars, userRallies, rateLimit,
                   profiles, outVars, reqVars>>

\* postSolutionComment for either outcome; the updateRallyStats loop over the
\* other guesses only logs; expiredCount++ back in the job.
SchedComment ==
    /\ sched.pc = "comment"
    /\ comments' = Append(comments, [cipherId |-> SchedCipher.id,
                                     solved |-> sched.winner # <<>>])
    /\ sched' = SchedAdvance([sched EXCEPT !.expiredCount = @ + 1])
    /\ UNCHANGED <<client, genVars, clockVars, cipherVars, guessVars, userRallies, rateLimit,
                   profiles, narrativeVars, realtime, rallyUpdates, reqVars>>

\* -------------------------------------------------------------------- system
Next ==
    \/ AdvanceTime
    \/ GenerateCipher
    \/ \E u \in Users : UserProfile(u)
    \/ \E u \in Users, cid \in CipherIds : SubmitGuess(u, cid)
    \/ \E u \in Users, g \in GuessIds : RallyBegin(u, g)
    \/ \E r \in BagToSet(rallyReqs) : RallyAdd(r)
    \/ \E r \in BagToSet(rallyReqs) : RallyIncrement(r)
    \/ SchedStart
    \/ SchedReadNow
    \/ SchedVisit
    \/ SchedDetermine
    \/ SchedMarkExpired
    \/ SchedSendExpired
    \/ SchedMarkWinner
    \/ SchedUserSolves
    \/ SchedBreadcrumb
    \/ SchedComment

Spec == Init /\ [][Next]_vars

\* ------------------------------------------- winner determination, alone
\* The expiration of one cipher over every list of up to MaxSnapshot stored
\* guesses with the rally counts and timestamps below: the job has read its
\* active list before expiresAt and its now at expiresAt.  (The job never
\* reads a rally record: updateRallyStats is a stub.)
VoteSamples == {0, 3, 5}
CreatedSamples == {0, TimeStep}

SampleCipher ==
    [id |-> 1, difficulty |-> "Easy",
     timeLimit |-> getTimeLimitForDifficulty("Easy"),
     createdAt |-> 0,
     expiresAt |-> getTimeLimitForDifficulty("Easy") * HOUR_MS,
     isActive |-> TRUE, category |-> "privacy",
     narrative_thread_id |-> <<"uuid", 1>>]

InitWinner ==
    /\ now = SampleCipher.expiresAt
    /\ clockSteps = 0
    /\ ciphers = <<SampleCipher>>
    /\ activeIds = <<1>>
    /\ \E n \in 0..MaxSnapshot :
         \E votes \in [1..n -> VoteSamples], times \in [1..n -> CreatedSamples] :
            /\ guesses = [i \in 1..n |->
                            [id |-> i, cipherId |-> 1, userId |-> 1,
                             rallyCount |-> votes[i], createdAt |-> times[i],
                             isWinner |-> FALSE]]
            /\ cipherGuesses = [c \in CipherIds |->
                                  IF c = 1 THEN [i \in 1..n |-> i] ELSE <<>>]
    /\ userRallies = [u \in Users |-> <<>>]
    /\ rateLimit = [k \in {"rally", "guess"} |->
                      [u \in Users |-> [count |-> 0, expireAt |-> 0]]]
    /\ profiles = [u \in Users |-> [exists |-> FALSE, solves_count |-> 0]]
    /\ breadcrumbs = <<>>
    /\ breadcrumbCount = [total |-> 0, privacy |-> 0, auditing |-> 0, patents |-> 0]
    /\ realtime = [c \in CipherIds |-> <<>>]
    /\ rallyUpdates = [g \in GuessIds |-> <<>>]
    /\ comments = <<>>
    /\ rallyReqs = EmptyBag
    /\ rallyAnswers = [u \in Users |-> [g \in GuessIds |->
                         [accepted |-> 0, notfound |-> 0]]]
    /\ sched = [SchedIdle EXCEPT !.pc = "visit", !.ticks = 1,
                                 !.active = <<SampleCipher>>, !.idx = 1,
                                 !.now = SampleCipher.expiresAt]
    /\ GenIdle
    /\ client = ClientIdle

NextWinner ==
    \/ SchedVisit
    \/ SchedDetermine
    \/ SchedMarkExpired
    \/ SchedSendExpired
    \/ SchedMarkWinner
    \/ SchedUserSolves
    \/ SchedBreadcrumb
    \/ SchedComment

SpecWinner == InitWinner /\ [][NextWinner]_vars

\* ===================================================================== claims
ExpiredMsgs(c) == SelectSeq(realtime[c], LAMBDA m : m.type = "cipher_expired")

RallyRecords(u, g) ==
    {i \in 1..Len(userRallies[u]) : userRallies[u][i].guessId = g}

InFlight(u, g) ==
    SumOver(BagToSet(rallyReqs),
            [r \in BagToSet(rallyReqs) |->
               IF r.userId = u /\ r.guessId = g THEN CopiesIn(r, rallyReqs) ELSE 0])

\* The cipher is in its lockdown window or past it at time t.
LockedAt(cid, t) == ciphers[cid].expiresAt - t <= LOCKDOWN_MS

NotActive(cid) == ~ciphers[cid].isActive \/ now >= ciphers[cid].expiresAt

Perms(s) == {[i \in 1..Len(s) |-> s[f[i]]] : f \in Permutations(1..Len(s))}

\* C1: whatever the interleaving of rally requests, also of several requests
\* in flight from the same user for the same guess, at most one request per
\* (user, guess) pair is accepted and at most one rally is registered for it.
C1_OneVotePerPair ==
    \A u \in Users, g \in GuessIds :
        /\ rallyAnswers[u][g].accepted <= 1
        /\ Cardinality(RallyRecords(u, g)) <= 1

\* C2: when every user has rallied at most once per guess and every request
\* has been answered, each guess's rallyCount is the number of accepted
\* (user, guess) pairs for it, which is the number of users with a rally
\* registered for it: no increment is lost and none is counted twice.
OncePerPair ==
    \A u \in Users, g \in GuessIds :
        rallyAnswers[u][g].accepted + rallyAnswers[u][g].notfound
          + InFlight(u, g) <= 1

C2_CountIsAcceptedPairs ==
    (rallyReqs = EmptyBag /\ OncePerPair) =>
        \A g \in DOMAIN guesses :
            /\ guesses[g].rallyCount =
                 Cardinality({u \in Users : rallyAnswers[u][g].accepted = 1})
            /\ guesses[g].rallyCount =
                 Cardinality({u \in Users : hasUserRallied(u, g)})

C2_Witness ==
    /\ rallyReqs = EmptyBag
    /\ OncePerPair
    /\ \E g \in DOMAIN guesses : guesses[g].rallyCount = 2

\* C3: no guess and no rally comes from a request made while its cipher had
\* at most LOCKDOWN_MS left (or had expired): every stored guess and every
\* registered rally was created before the lockdown window of its cipher.
C3_LockdownExclusive ==
    /\ \A g \in DOMAIN guesses :
          ~LockedAt(guesses[g].cipherId, guesses[g].createdAt)
    /\ \A u \in Users : \A i \in 1..Len(userRallies[u]) :
          LET rally == userRallies[u][i]
          IN ~LockedAt(guesses[rally.guessId].cipherId, rally.createdAt)

\* C4: a guess's rallyCount never decreases, and once its cipher is no longer
\* active (isActive false or now >= expiresAt) it never changes again.
C4_FrozenAfterExpiry ==
    [][\A g \in DOMAIN guesses :
          /\ guesses'[g].rallyCount >= guesses[g].rallyCount
          /\ NotActive(guesses[g].cipherId) =>
                guesses'[g].rallyCount = guesses[g].rallyCount]_vars

\* C5: a run of the expiration check made at or after a cipher's expiresAt
\* leaves that cipher expired: when the job has answered and its now was at
\* or past expiresAt, the cipher is no longer active.
C5_ExpiryProcessed ==
    \A c \in DOMAIN ciphers :
        (sched.pc = "idle" /\ sched.ticks > 0 /\ sched.now >= ciphers[c].expiresAt)
            => ~ciphers[c].isActive

Determined ==
    sched.pc \in {"markExpired", "sendExpired", "markWinner", "userSolves",
                  "breadcrumb", "comment"}

Snapshot == {sched.guesses[i] : i \in 1..Len(sched.guesses)}

\* a comes before b in the rule: more rallies, or as many and created earlier.
Beats(a, b) ==
    \/ a.rallyCount > b.rallyCount
    \/ a.rallyCount = b.rallyCount /\ a.createdAt < b.createdAt

SameKey(a, b) == a.rallyCount = b.rallyCount /\ a.createdAt = b.createdAt

GuessA == [id |-> 1, cipherId |-> 1, userId |-> 1, rallyCount |-> 3,
           createdAt |-> 0, isWinner |-> FALSE]
GuessB == [id |-> 2, cipherId |-> 1, userId |-> 1, rallyCount |-> 3,
           createdAt |-> TimeStep, isWinner |-> FALSE]
GuessC == [id |-> 3, cipherId |-> 1, userId |-> 1, rallyCount |-> 5,
           createdAt |-> TimeStep, isWinner |-> FALSE]

\* C7 (as stated): the winner determined is the same for every order in
\* which the store could have returned the guesses read.
C7_OrderIndependent ==
    Determined =>
        \A p \in Perms(sched.guesses) : DetermineWinner(p) = sched.winner

\* C7 (amended): a winner determined is a guess read that no other guess
\* read beats (highest rallyCount, then earliest createdAt); A(3, t1),
\* B(3, t2 > t1), C(5) give C and A, B alone give A, in every order; over the
\* orders of the guesses read the winner keeps its rallyCount and createdAt,
\* and is the same guess unless another guess has both of them equal.
C7_WinnerTieBreak ==
    Determined =>
         /\ \A p \in Perms(<<GuessA, GuessB, GuessC>>) :
              DetermineWinner(p) = <<GuessC>>
         /\ \A p \in Perms(<<GuessA, GuessB>>) : DetermineWinner(p) = <<GuessA>>
         /\ sched.winner # <<>> =>
              /\ sched.winner[1] \in Snapshot
              /\ \A g \in Snapshot : ~Beats(g, sched.winner[1])
         /\ \A p \in Perms(sched.guesses) :
              LET other == DetermineWinner(p)
              IN /\ (other = <<>>) <=> (sched.winner = <<>>)
                 /\ other # <<>> =>
                      /\ SameKey(other[1], sched.winner[1])
                      /\ (\A g \in Snapshot :
                            SameKey(g, sched.winner[1]) => g = sched.winner[1])
                           => other = sched.winner

C7_Witness ==
    /\ sched.pc = "sendExpired"
    /\ Len(sched.guesses) = 3
    /\ \E a, b, c \in Snapshot :
          /\ a.rallyCount = 3 /\ b.rallyCount = 3 /\ c.rallyCount = 5
          /\ a.createdAt < b.createdAt
          /\ a.id > b.id
    /\ sched.winner # <<>>
    /\ sched.winner[1].rallyCount = 5

\* C8: a guess without a rally never wins: the expiry of a cipher whose
\* guesses all have rallyCount 0 (one guess, several, or none) finds and
\* announces no winner, and the expiry of a cipher with a guess of rallyCount
\* >= 1 finds and announces a winner, who has rallyCount >= 1.
C8_ZeroVoteRule ==
    /\ Determined =>
         /\ (sched.winner = <<>>) <=> (\A g \in Snapshot : g.rallyCount = 0)
         /\ sched.winner # <<>> => sched.winner[1].rallyCount >= 1
    /\ \A c \in DOMAIN ciphers : \A i \in 1..Len(ExpiredMsgs(c)) :
         LET m == ExpiredMsgs(c)[i]
             ofCipher == {g \in DOMAIN guesses : guesses[g].cipherId = c}
         IN /\ (m.winner = <<>>) <=> (\A g \in ofCipher : guesses[g].rallyCount = 0)
            /\ m.winner # <<>> => m.winner[1].rallyCount >= 1
    /\ \A g \in DOMAIN guesses : guesses[g].isWinner => guesses[g].rallyCount >= 1

C8_Witness ==
    /\ Len(cipherGuesses[1]) = 1
    /\ guesses[1].rallyCount = 0
    /\ ~ciphers[1].isActive
    /\ Len(ExpiredMsgs(1)) = 1
    /\ ExpiredMsgs(1)[1].winner = <<>>
    /\ comments # <<>>

\* C9: the cipher_expired message of a cipher with a winner is sent only
\* after the winner's isWinner flag and the breadcrumb of the cipher have
\* been written: whenever such a message is out, both are in the store.
C9_EventAfterWinnerWrites ==
    \A c \in DOMAIN ciphers : \A i \in 1..Len(ExpiredMsgs(c)) :
        LET m == ExpiredMsgs(c)[i]
        IN m.winner # <<>> =>
             /\ guesses[m.winner[1].id].isWinner
             /\ \E k \in 1..Len(breadcrumbs) : breadcrumbs[k].cipherId = c

\* C10: while the job handles an expiry that found no winner (no guess read
\* has a rally), no breadcrumb is stored, no breadcrumb counter changes, no
\* guess's isWinner changes, and the message it sends is cipher_expired with
\* a null winner.
C10_NoWinnerNoNarrative ==
    [][(Determined /\ (sched.winner = <<>> \/ \A g \in Snapshot : g.rallyCount = 0)) =>
          /\ breadcrumbs' = breadcrumbs
          /\ breadcrumbCount' = breadcrumbCount
          /\ \A g \in DOMAIN guesses : guesses'[g].isWinner = guesses[g].isWinner
          /\ realtime' # realtime =>
               realtime' = [realtime EXCEPT ![SchedCipher.id] =
                              Append(@, Msg("cipher_expired", 0, <<>>))]]_vars

C10_Witness ==
    /\ sched.pc = "idle"
    /\ \E c \in DOMAIN ciphers :
          /\ ~ciphers[c].isActive
          /\ cipherGuesses[c] # <<>>
          /\ Len(ExpiredMsgs(c)) = 1
          /\ ExpiredMsgs(c)[1].winner = <<>>
          /\ \E k \in 1..Len(comments) :
                comments[k].cipherId = c /\ ~comments[k].solved
    /\ breadcrumbs = <<>>
    /\ breadcrumbCount.total = 0
    /\ \A g \in DOMAIN guesses : ~guesses[g].isWinner

LockdownMsgs(c) == SelectSeq(realtime[c], LAMBDA m : m.type = "cipher_lockdown")

\* C11: over the jobs that run inside a cipher's lockdown window
\* (0 < expiresAt - now <= LOCKDOWN_MS) the cipher_lockdown message of the
\* cipher is sent once: no channel ever holds two of them.
C11_LockdownAnnouncedOnce ==
    \A c \in DOMAIN ciphers : Len(LockdownMsgs(c)) <= 1

\* --------------------------------------------- submission rate limit, alone
\* One submitter population sending valid guesses for one stored cipher,
\* with the clock moving by a sixth or by five sixths of the rate-limit TTL
\* between requests.
MaxRateSubmits == 6
MaxRateClock == 4

RATE_TTL_MS == RATE_TTL_S * 1000

RateSteps == {RATE_TTL_MS \div 6, 5 * (RATE_TTL_MS \div 6)}

InitRate ==
    /\ now = 0
    /\ clockSteps = 0
    /\ ciphers = <<SampleCipher>>
    /\ activeIds = <<1>>
    /\ guesses = <<>>
    /\ cipherGuesses = [c \in CipherIds |-> <<>>]
    /\ userRallies = [u \in Users |-> <<>>]
    /\ rateLimit = [k \in {"rally", "guess"} |->
                      [u \in Users |-> [count |-> 0, expireAt |-> 0]]]
    /\ profiles = [u \in Users |-> [exists |-> FALSE, solves_count |-> 0]]
    /\ breadcrumbs = <<>>
    /\ breadcrumbCount = [total |-> 0, privacy |-> 0, auditing |-> 0, patents |-> 0]
    /\ realtime = [c \in CipherIds |-> <<>>]
    /\ rallyUpdates = [g \in GuessIds |-> <<>>]
    /\ comments = <<>>
    /\ rallyReqs = EmptyBag
    /\ rallyAnswers = [u \in Users |-> [g \in GuessIds |->
                         [accepted |-> 0, notfound |-> 0]]]
    /\ sched = SchedIdle
    /\ GenIdle
    /\ client = ClientIdle

RateClock ==
    /\ clockSteps < MaxRateClock
    /\ \E d \in RateSteps : now' = now + d
    /\ clockSteps' = clockSteps + 1
    /\ UNCHANGED <<client, genVars, cipherVars, guessVars, userRallies, rateLimit, profiles,
                   narrativeVars, outVars, reqVars, sched>>

NextRate ==
    \/ RateClock
    \/ \E u \in Users : SubmitGuessWithin(u, 1, MaxRateSubmits)

SpecRate == InitRate /\ [][NextRate]_vars

\* POST /api/submit-guess answers 429 to u now.
GuessRateLimited(u) == RateRead("guess", u) >= GUESS_LIMIT

\* The times of u's accepted submissions.
AcceptedBy(u) == {g \in DOMAIN guesses : guesses[g].userId = u}

RecentBy(u) ==
    {g \in AcceptedBy(u) : guesses[g].createdAt > now - RATE_TTL_MS}

\* C12: a submitter's first GUESS_LIMIT submissions are accepted; with
\* GUESS_LIMIT accepted inside the last 60 s the next is answered 429; and
\* when all the submitter's submissions lie inside one 60 s window that
\* started with the first of them, a submission after the end of that window
\* is accepted.
C12_SixthRejectedUntilRollover ==
    \A u \in Users :
        /\ Cardinality(AcceptedBy(u)) < GUESS_LIMIT => ~GuessRateLimited(u)
        /\ Cardinality(RecentBy(u)) >= GUESS_LIMIT => GuessRateLimited(u)
        /\ (\E f \in AcceptedBy(u) :
               /\ \A g \in AcceptedBy(u) :
                     /\ guesses[g].createdAt >= guesses[f].createdAt
                     /\ guesses[g].createdAt < guesses[f].createdAt + RATE_TTL_MS
               /\ now >= guesses[f].createdAt + RATE_TTL_MS)
             => ~GuessRateLimited(u)

\* C13: the limit is a sliding window per submitter: a submission is answered
\* 429 only when the submitter has GUESS_LIMIT accepted submissions in the
\* trailing 60 s, whatever the other submitters did.
C13_SlidingWindowPerSubmitter ==
    \A u \in Users :
        GuessRateLimited(u) => Cardinality(RecentBy(u)) >= GUESS_LIMIT

\* ------------------------------------------------ CipherGenerationService
\* The calls of generateCipher made by the two generation routes, each with
\* its AI pipeline (performAIGeneration) racing the generation timeout, the
\* fallback pool behind it, and the store of the result.  Every redis call
\* either succeeds or rejects (ok).  Time stands still.
MaxGenCalls == 2
MaxRuns == 3

FALLBACK_POOL_SIZE == 50
MIN_FALLBACK_POOL_SIZE == 5

FALLBACK_CIPHERS ==
    << [solution |-> "ENCRYPTION", difficulty |-> "Easy", timeLimit |-> 3, category |-> "privacy"],
       [solution |-> "COMPLIANCE", difficulty |-> "Medium", timeLimit |-> 4, category |-> "auditing"],
       [solution |-> "INVENTION", difficulty |-> "Easy", timeLimit |-> 3, category |-> "patents"],
       [solution |-> "PRIVACY", difficulty |-> "Medium", timeLimit |-> 4, category |-> "privacy"],
       [solution |-> "OVERSIGHT", difficulty |-> "Easy", timeLimit |-> 3, category |-> "auditing"],
       [solution |-> "INNOVATION", difficulty |-> "Hard", timeLimit |-> 5, category |-> "patents"],
       [solution |-> "SECURITY", difficulty |-> "Medium", timeLimit |-> 4, category |-> "privacy"],
       [solution |-> "EVIDENCE", difficulty |-> "Medium", timeLimit |-> 4, category |-> "auditing"],
       [solution |-> "RESEARCH", difficulty |-> "Easy", timeLimit |-> 3, category |-> "patents"],
       [solution |-> "ANONYMOUS", difficulty |-> "Hard", timeLimit |-> 5, category |-> "privacy"] >>

\* Math.random() * FALLBACK_CIPHERS.length, floored, at each turn of the
\* loop of getFallbackCipherPool: the sampled run of draws.
DrawSamples ==
    {[k \in 1..Len(FALLBACK_CIPHERS) |-> 7]}

FromTemplate(template, id, t, source) ==
    [id |-> id, difficulty |-> template.difficulty,
     timeLimit |-> template.timeLimit,
     createdAt |-> t, expiresAt |-> t + template.timeLimit * HOUR_MS,
     isActive |-> TRUE, category |-> template.category,
     narrative_thread_id |-> <<"template", template.solution>>,
     solution |-> template.solution, source |-> source]

getRandomFallbackCipher(index, id, t) ==
    FromTemplate(FALLBACK_CIPHERS[index + 1], id, t, "hardcoded")

\* while (usedIndices.has(index)) index = (index + 1) % length
RECURSIVE Probe(_, _)
Probe(index, usedIndices) ==
    IF index \in usedIndices
    THEN Probe((index + 1) % Len(FALLBACK_CIPHERS), usedIndices)
    ELSE index

RECURSIVE PoolLoop(_, _, _, _, _, _)
PoolLoop(made, usedIndices, count, draws, firstId, t) ==
    IF Len(made) < count /\ Cardinality(usedIndices) < Len(FALLBACK_CIPHERS)
    THEN LET index == Probe(draws[Len(made) + 1], usedIndices)
         IN PoolLoop(Append(made, FromTemplate(FALLBACK_CIPHERS[index + 1],
                                               <<"pool", firstId, Len(made) + 1>>,
                                               t, "pool")),
                     usedIndices \cup {index}, count, draws, firstId, t)
    ELSE made

getFallbackCipherPool(count, draws, firstId, t) ==
    PoolLoop(<<>>, {}, count, draws, firstId, t)

\* A splice that removes nothing.
SpliceNone(s, k) == s

\* pool.splice(selectedIndex, 1)
Splice(s, k) == SubSeq(s, 1, k - 1) \o SubSeq(s, k + 1, Len(s))

\* selectedCipher.createdAt = now; selectedCipher.expiresAt = now + budget
Restamp(cipher, t) ==
    [cipher EXCEPT !.createdAt = t, !.expiresAt = t + cipher.timeLimit * HOUR_MS]

NewCall(route, configured) ==
    [route |-> route, configured |-> configured,
     pc |-> IF route = "scheduler" THEN "initPool"
            ELSE IF configured THEN "race" ELSE "backup",
     ai |-> IF configured THEN "author" ELSE "none",
     runs |-> 0, draft |-> <<>>, local |-> <<>>, picked |-> <<>>,
     result |-> <<>>, timedOut |-> FALSE]

\* The pipeline of call g settles: generateCipher is still waiting for it
\* only when the timeout has not fired.
Resolved(g) ==
    IF g.pc = "race"
    THEN [g EXCEPT !.ai = "resolved", !.pc = "store", !.result = g.draft,
                   !.draft = <<>>]
    ELSE [g EXCEPT !.ai = "resolved", !.draft = <<>>]

Rejected(g) ==
    IF g.pc = "race"
    THEN [g EXCEPT !.ai = "rejected", !.pc = "backup"]
    ELSE [g EXCEPT !.ai = "rejected"]

genFrame == <<clockVars, guessVars, userRallies, rateLimit, profiles,
              narrativeVars, outVars, reqVars, sched, client>>

\* A generation route is called; generateWithAI throws at once when the AI
\* services are not configured.
GenStartWhen(route, configured, room) ==
    /\ room
    /\ gens' = Append(gens, NewCall(route, configured))
    /\ UNCHANGED <<genFrame, cipherVars, pool, solutionHashes, backupMode, uuids>>

GenStart(route, configured) ==
    GenStartWhen(route, configured, Len(gens) < MaxGenCalls)

\* initializeFallbackPool, of the scheduler route: errors are logged.
GenInitPool(i, ok) ==
    /\ gens[i].pc = "initPool"
    /\ gens' = [gens EXCEPT ![i].pc = IF gens[i].configured THEN "race" ELSE "backup"]
    /\ IF ok /\ ~pool.present
       THEN \E draws \in DrawSamples :
              LET made == getFallbackCipherPool(FALLBACK_POOL_SIZE, draws, uuids + 1, now)
              IN /\ pool' = [present |-> TRUE, items |-> made]
                 /\ uuids' = uuids + 1
       ELSE UNCHANGED <<pool, uuids>>
    /\ UNCHANGED <<genFrame, cipherVars, solutionHashes, backupMode>>

\* performAIGeneration up to validation: the events are fetched and a cipher
\* is authored and validated, or one of the three throws.
AIAuthor(i, out) ==
    /\ gens[i].ai = "author"
    /\ gens[i].pc # "initPool"
    /\ gens[i].runs < MaxRuns
    /\ IF out = <<>>
       THEN gens' = [gens EXCEPT ![i] = Rejected([@ EXCEPT !.runs = @ + 1])]
       ELSE LET timeLimit == getTimeLimitForDifficulty(out[1][1])
                cipher == [id |-> <<"ai", i, gens[i].runs + 1>>, difficulty |-> out[1][1],
                           timeLimit |-> timeLimit,
                           createdAt |-> now,
                           expiresAt |-> now + timeLimit * HOUR_MS,
                           isActive |-> TRUE, category |-> out[1][2],
                           narrative_thread_id |->
                               <<"uuid", "ai", i, gens[i].runs + 1>>,
                           solution |-> out[2], source |-> "ai"]
            IN gens' = [gens EXCEPT ![i].ai = "dupGet", ![i].runs = @ + 1,
                                    ![i].draft = <<cipher>>]
    /\ UNCHANGED <<genFrame, cipherVars, pool, solutionHashes, backupMode, uuids>>

\* checkForDuplicate: redis.get of the solution's hash.  A duplicate makes
\* performAIGeneration call itself; an error counts as no duplicate.
AIDupGet(i, ok) ==
    /\ gens[i].ai = "dupGet"
    /\ gens' = [gens EXCEPT ![i] =
                  IF ~ok THEN Resolved(@)
                  ELSE IF @.draft[1].solution \in DOMAIN solutionHashes
                       THEN [@ EXCEPT !.ai = "author", !.draft = <<>>]
                       ELSE [@ EXCEPT !.ai = "dupSet"]]
    /\ UNCHANGED <<genFrame, cipherVars, pool, solutionHashes, backupMode, uuids>>

\* checkForDuplicate: the hash is registered, and the pipeline returns.
AIDupSet(i, ok) ==
    /\ gens[i].ai = "dupSet"
    /\ solutionHashes' =
          IF ok THEN (gens[i].draft[1].solution :> gens[i].draft[1].id) @@ solutionHashes
          ELSE solutionHashes
    /\ gens' = [gens EXCEPT ![i] = Resolved(@)]
    /\ UNCHANGED <<genFrame, cipherVars, pool, backupMode, uuids>>

\* The timeout of generateWithAI wins the race: the pipeline goes on.
GenTimeout(i) ==
    /\ gens[i].pc = "race"
    /\ gens[i].ai \in {"author", "dupGet", "dupSet"}
    /\ gens' = [gens EXCEPT ![i].pc = "backup", ![i].timedOut = TRUE]
    /\ UNCHANGED <<genFrame, cipherVars, pool, solutionHashes, backupMode, uuids>>

\* generateCipher's catch: backup_mode is set, outside any try.
GenBackup(i, ok) ==
    /\ gens[i].pc = "backup"
    /\ backupMode' = (ok \/ backupMode)
    /\ gens' = [gens EXCEPT ![i].pc = IF ok THEN "poolGet" ELSE "failed"]
    /\ UNCHANGED <<genFrame, cipherVars, pool, solutionHashes, uuids>>

\* selectFallbackCipher's catch: getRandomFallbackCipher.
LastResort(i, index) ==
    [gens[i] EXCEPT !.pc = "store", !.local = <<>>, !.picked = <<>>,
                    !.result = <<getRandomFallbackCipher(index, <<"hardcoded", i, 0>>, now)>>]

\* Math.floor(Math.random() * length): the sampled outcomes for a template
\* index and for a position in a pool of n ciphers.
TemplateIndices == {0, 5}

Positions(n) == {1, n}

\* selectFallbackCipher: the stored pool is read; with enough ciphers one is
\* selected and spliced out of the copy.
FallbackGet(i, ok) ==
    /\ gens[i].pc = "poolGet"
    /\ IF ~ok
       THEN \E index \in TemplateIndices :
              gens' = [gens EXCEPT ![i] = LastResort(i, index)]
       ELSE IF Len(pool.items) < MIN_FALLBACK_POOL_SIZE
            THEN gens' = [gens EXCEPT ![i].pc = "poolRefill",
                                      ![i].local = pool.items]
            ELSE \E k \in Positions(Len(pool.items)) :
                   gens' = [gens EXCEPT ![i].pc = "poolPut",
                                        ![i].picked = <<pool.items[k]>>,
                                        ![i].local = Splice(pool.items, k)]
    /\ UNCHANGED <<genFrame, cipherVars, pool, solutionHashes, backupMode, uuids>>

\* selectFallbackCipher: a pool below the floor is built anew and stored,
\* then one cipher is selected and spliced out of the copy.
FallbackRefill(i, ok) ==
    /\ gens[i].pc = "poolRefill"
    /\ \E draws \in DrawSamples :
         LET made == getFallbackCipherPool(FALLBACK_POOL_SIZE, draws, uuids + 1, now)
         IN IF ok
            THEN /\ pool' = [present |-> TRUE, items |-> made]
                 /\ \E k \in Positions(Len(made)) :
                      gens' = [gens EXCEPT ![i].pc = "poolPut",
                                           ![i].picked = <<made[k]>>,
                                           ![i].local = Splice(made, k)]
            ELSE /\ UNCHANGED pool
                 /\ \E index \in TemplateIndices :
                      gens' = [gens EXCEPT ![i] = LastResort(i, index)]
    /\ uuids' = uuids + 1
    /\ UNCHANGED <<genFrame, cipherVars, solutionHashes, backupMode>>

\* selectFallbackCipher: the pool without the selected cipher is stored and
\* the selected cipher is stamped and returned.
FallbackPut(i, ok) ==
    /\ gens[i].pc = "poolPut"
    /\ IF ok
       THEN /\ pool' = [present |-> TRUE, items |-> gens[i].local]
            /\ gens' = [gens EXCEPT ![i].pc = "store",
                                    ![i].local = <<>>, ![i].picked = <<>>,
                                    ![i].result = <<Restamp(gens[i].picked[1], now)>>]
       ELSE /\ \E index \in TemplateIndices :
                 gens' = [gens EXCEPT ![i] = LastResort(i, index)]
            /\ UNCHANGED pool
    /\ UNCHANGED <<genFrame, cipherVars, solutionHashes, backupMode, uuids>>

\* storeCipher of the cipher generateCipher returned, and the answer.
GenStore(i, ok) ==
    /\ gens[i].pc = "store"
    /\ IF ok
       THEN /\ saveCipher(gens[i].result[1])
            /\ gens' = [gens EXCEPT ![i].pc = "done"]
       ELSE /\ gens' = [gens EXCEPT ![i].pc = "failed"]
            /\ UNCHANGED cipherVars
    /\ UNCHANGED <<genFrame, pool, solutionHashes, backupMode, uuids>>

\* What one run of the pipeline authors: nothing (an error), or a cipher
\* of some difficulty and category with some solution.
AuthorOutcomes ==
    {<<>>, << <<"Easy", "privacy">>, "ENIGMA" >>, << <<"Hard", "patents">>, "LEDGER" >>}

NextGen ==
    \/ \E route \in {"scheduler", "api"}, configured \in BOOLEAN :
          GenStart(route, configured)
    \/ \E i \in DOMAIN gens, ok \in BOOLEAN : GenInitPool(i, ok)
    \/ \E i \in DOMAIN gens, out \in AuthorOutcomes : AIAuthor(i, out)
    \/ \E i \in DOMAIN gens, ok \in BOOLEAN : AIDupGet(i, ok)
    \/ \E i \in DOMAIN gens, ok \in BOOLEAN : AIDupSet(i, ok)
    \/ \E i \in DOMAIN gens : GenTimeout(i)
    \/ \E i \in DOMAIN gens, ok \in BOOLEAN : GenBackup(i, ok)
    \/ \E i \in DOMAIN gens, ok \in BOOLEAN : FallbackGet(i, ok)
    \/ \E i \in DOMAIN gens, ok \in BOOLEAN : FallbackRefill(i, ok)
    \/ \E i \in DOMAIN gens, ok \in BOOLEAN : FallbackPut(i, ok)
    \/ \E i \in DOMAIN gens, ok \in BOOLEAN : GenStore(i, ok)

SpecGen == Init /\ [][NextGen]_vars

\* generateCipher of call i threw: the route answers 500 without a cipher.
GenerateThrew(i) == gens[i].pc = "failed" /\ gens[i].result = <<>>

\* C14: a call of generateCipher whose AI generation failed never ends
\* without a cipher, and the cipher a call returns is usable: active, with
\* expiresAt > createdAt; this with the stored pool absent, short, or
\* unreadable.
C14_FallbackAlwaysReturns ==
    \A i \in DOMAIN gens :
        /\ ~GenerateThrew(i)
        /\ gens[i].result # <<>> =>
              /\ gens[i].result[1].expiresAt > gens[i].result[1].createdAt
              /\ gens[i].result[1].isActive

\* C15: one call of generateCipher runs the pipeline at most twice: once,
\* and once more after a duplicate solution.
C15_PipelineAtMostTwice ==
    \A i \in DOMAIN gens : gens[i].runs <= 2

\* C16: once the timeout has made a call return a fallback cipher, no
\* solution hash of a cipher authored by that call's pipeline is registered.
C16_TimeoutCommitsNothing ==
    \A i \in DOMAIN gens :
        (/\ gens[i].timedOut
         /\ gens[i].result # <<>>
         /\ gens[i].result[1].source # "ai")
          => \A sol \in DOMAIN solutionHashes :
                solutionHashes[sol] \notin {<<"ai", i, r>> : r \in 1..MaxRuns}

\* The templates of a batch of pool ciphers are pairwise different.
NoTemplateTwice(batch) ==
    \A a, b \in DOMAIN batch :
        batch[a].solution = batch[b].solution => a = b

\* A call of selectFallbackCipher that found the stored pool below the floor
\* stores a new pool in this step.
Refills(i) ==
    /\ i \in DOMAIN gens
    /\ gens[i].pc = "poolRefill"
    /\ gens'[i].pc = "poolPut"

\* C26: a take that finds the stored pool below MIN_FALLBACK_POOL_SIZE
\* refills it to FALLBACK_POOL_SIZE ciphers before selecting one, and no
\* template is used twice in the batch.
C26_RefillToCeiling ==
    [][\A i \in DOMAIN gens :
          Refills(i) => /\ Len(pool'.items) = FALLBACK_POOL_SIZE
                        /\ NoTemplateTwice(pool'.items)]_vars

\* The part of C26 that the batch satisfies.
RefillBatchDistinct ==
    [][\A i \in DOMAIN gens :
          Refills(i) => /\ Len(pool'.items) >= MIN_FALLBACK_POOL_SIZE
                        /\ Len(pool'.items) <= FALLBACK_POOL_SIZE
                        /\ NoTemplateTwice(pool'.items)]_vars

\* ---------------------------------------------- fallback pool, sequential
\* selectFallbackCipher called again and again, each call after the one
\* before has returned, with the AI services not configured and the clock
\* moving between the steps: the pool is drained below the floor and
\* refilled.
MaxTakeCalls == 3
MaxTakeClock == 1

\* The stored pool after the takes that brought it down to the floor: the
\* pool made at time 0, less the ciphers taken from its end.
InitTake ==
    /\ now = 0
    /\ clockSteps = 0
    /\ ciphers = <<>>
    /\ activeIds = <<>>
    /\ guesses = <<>>
    /\ cipherGuesses = [c \in CipherIds |-> <<>>]
    /\ userRallies = [u \in Users |-> <<>>]
    /\ rateLimit = [k \in {"rally", "guess"} |->
                      [u \in Users |-> [count |-> 0, expireAt |-> 0]]]
    /\ profiles = [u \in Users |-> [exists |-> FALSE, solves_count |-> 0]]
    /\ breadcrumbs = <<>>
    /\ breadcrumbCount = [total |-> 0, privacy |-> 0, auditing |-> 0, patents |-> 0]
    /\ realtime = [c \in CipherIds |-> <<>>]
    /\ rallyUpdates = [g \in GuessIds |-> <<>>]
    /\ comments = <<>>
    /\ rallyReqs = EmptyBag
    /\ rallyAnswers = [u \in Users |-> [g \in GuessIds |->
                         [accepted |-> 0, notfound |-> 0]]]
    /\ sched = SchedIdle
    /\ \E draws \in DrawSamples :
          pool = [present |-> TRUE,
                  items |-> SubSeq(getFallbackCipherPool(FALLBACK_POOL_SIZE, draws, 1, 0),
                                   1, MIN_FALLBACK_POOL_SIZE)]
    /\ solutionHashes = <<>>
    /\ backupMode = TRUE
    /\ uuids = 1
    /\ gens = <<>>
    /\ client = ClientIdle

TakeStart ==
    GenStartWhen("api", FALSE,
                 /\ Len(gens) < MaxTakeCalls
                 /\ \A j \in DOMAIN gens : gens[j].pc \in {"done", "failed"})

TakeClock ==
    /\ clockSteps < MaxTakeClock
    /\ now' = now + HOUR_MS
    /\ clockSteps' = clockSteps + 1
    /\ UNCHANGED <<client, genVars, cipherVars, guessVars, userRallies, rateLimit,
                   profiles, narrativeVars, outVars, reqVars, sched>>

NextTake ==
    \/ TakeStart
    \/ TakeClock
    \/ \E i \in DOMAIN gens, ok \in BOOLEAN : GenBackup(i, ok)
    \/ \E i \in DOMAIN gens, ok \in BOOLEAN : FallbackGet(i, ok)
    \/ \E i \in DOMAIN gens, ok \in BOOLEAN : FallbackRefill(i, ok)
    \/ \E i \in DOMAIN gens, ok \in BOOLEAN : FallbackPut(i, ok)
    \/ \E i \in DOMAIN gens, ok \in BOOLEAN : GenStore(i, ok)

SpecTake == InitTake /\ [][NextTake]_vars

PoolIds(items) == {items[k].id : k \in DOMAIN items}

\* Call i returns a cipher of the pool in this step.
Takes(i) ==
    /\ i \in DOMAIN gens
    /\ gens[i].pc = "poolPut"
    /\ gens'[i].pc = "store"
    /\ gens'[i].result[1].source = "pool"

Taken(i) ==
    /\ gens[i].result # <<>>
    /\ gens[i].result[1].source = "pool"

\* C27: a take removes the returned cipher, and nothing else, from the
\* stored pool, which gets one shorter; the returned cipher has
\* createdAt = now and expiresAt = now + the budget of its difficulty; and
\* no earlier take returned a cipher with the same id.
C27_TakeRemovesAndRestamps ==
    [][\A i \in DOMAIN gens :
          Takes(i) =>
            LET taken == gens'[i].result[1]
            IN /\ Len(pool'.items) = Len(pool.items) - 1
               /\ PoolIds(pool'.items) = PoolIds(pool.items) \ {taken.id}
               /\ taken.id \in PoolIds(pool.items)
               /\ taken.createdAt = now
               /\ taken.expiresAt =
                     now + getTimeLimitForDifficulty(taken.difficulty) * HOUR_MS
               /\ \A j \in DOMAIN gens \ {i} :
                     Taken(j) => gens[j].result[1].id # taken.id]_vars

\* What a take keeps of C27 when another take runs between its read and
\* its write of the pool: the returned cipher is not in the pool it stores,
\* and is stamped with the time of the return.
TakeAmongOthers ==
    [][\A i \in DOMAIN gens :
          Takes(i) =>
            LET taken == gens'[i].result[1]
            IN /\ taken.id \notin PoolIds(pool'.items)
               /\ taken.createdAt = now
               /\ taken.expiresAt =
                     now + getTimeLimitForDifficulty(taken.difficulty) * HOUR_MS]_vars

\* A take from a pool refilled after it was drained below the floor, later
\* than the pool was made, every call having returned a cipher of the pool.
C27_Witness ==
    \E i \in DOMAIN gens :
        /\ Taken(i)
        /\ gens[i].pc = "done"
        /\ gens[i].result[1].id[2] > 1
        /\ gens[i].result[1].createdAt > 0
        /\ Cardinality({j \in DOMAIN gens : Taken(j)}) = MaxTakeCalls

\* --------------------------------------------- every source of a cipher
\* Calls of POST /api/generate-cipher made one after the other, with the AI
\* services configured or not, the clock moving and every redis call able
\* to fail, from a stored pool at the floor: ciphers authored by the
\* pipeline, taken from the pool and built by getRandomFallbackCipher are
\* stored side by side.  The pipeline settles before the timeout.
MaxBudgetCalls == 3

BudgetStart(route, configured) ==
    GenStartWhen(route, configured,
                 /\ Len(gens) < MaxBudgetCalls
                 /\ \A j \in DOMAIN gens : gens[j].pc \in {"done", "failed"})

NextBudget ==
    \/ \E configured \in BOOLEAN : BudgetStart("api", configured)
    \/ TakeClock
    \/ \E i \in DOMAIN gens, out \in AuthorOutcomes : AIAuthor(i, out)
    \/ \E i \in DOMAIN gens, ok \in BOOLEAN : AIDupGet(i, ok)
    \/ \E i \in DOMAIN gens, ok \in BOOLEAN : AIDupSet(i, ok)
    \/ \E i \in DOMAIN gens, ok \in BOOLEAN : GenBackup(i, ok)
    \/ \E i \in DOMAIN gens, ok \in BOOLEAN : FallbackGet(i, ok)
    \/ \E i \in DOMAIN gens, ok \in BOOLEAN : FallbackRefill(i, ok)
    \/ \E i \in DOMAIN gens, ok \in BOOLEAN : FallbackPut(i, ok)
    \/ \E i \in DOMAIN gens, ok \in BOOLEAN : GenStore(i, ok)

SpecBudget == InitTake /\ [][NextBudget]_vars

\* The time budget of a difficulty, in hours.
Budget(difficulty) ==
    CASE difficulty = "Easy" -> 3
      [] difficulty = "Medium" -> 4
      [] difficulty = "Hard" -> 5

\* C30: every stored cipher, whichever path made it, expires its
\* difficulty's budget (3, 4 or 5 hours) after its createdAt, hence after it.
C30_StoredBudget ==
    \A c \in DOMAIN ciphers :
        /\ ciphers[c].expiresAt = ciphers[c].createdAt + Budget(ciphers[c].difficulty) * HOUR_MS
        /\ ciphers[c].expiresAt > ciphers[c].createdAt

\* Three stored ciphers, one of each source, the authored one Hard and the
\* pool's one taken later than the pool was made.
C30_Witness ==
    \E a, b, c \in DOMAIN ciphers :
        /\ ciphers[a].source = "ai" /\ ciphers[a].difficulty = "Hard"
        /\ ciphers[b].source = "pool" /\ ciphers[b].createdAt > 0
        /\ ciphers[c].source = "hardcoded"

\* ------------------------------------------------- narrative ledger, alone
\* The breadcrumb step of handleCipherExpiration over a long run of solved
\* ciphers. The ciphers are fallback ciphers, the only ones that share a
\* narrative thread (an authored cipher has a thread of its own): template
\* FALLBACK_CIPHERS[index + 1] for one of NarrativeTemplates, each but the
\* first at most MaxOtherThread times.
MaxBreadcrumbs == 52
MaxOtherThread == 1

\* Two templates of category privacy (ENCRYPTION, PRIVACY) and one of
\* category patents (INNOVATION), each with a narrative thread of its own.
NarrativeTemplates == {0, 3, 5}

ThreadOf(index) == <<"template", FALLBACK_CIPHERS[index + 1].solution>>

\* The breadcrumbs stored for a narrative thread.
ThreadBreadcrumbs(thread) ==
    {k \in DOMAIN breadcrumbs : breadcrumbs[k].narrative_thread_id = thread}

ThreadCount(thread) == Cardinality(ThreadBreadcrumbs(thread))

Threads == {breadcrumbs[k].narrative_thread_id : k \in DOMAIN breadcrumbs}

\* generateBreadcrumb(cipher, winner) for the n-th solved cipher.
RecordSolved(index, u) ==
    /\ Len(breadcrumbs) < MaxBreadcrumbs
    /\ index = 0 \/ ThreadCount(ThreadOf(index)) < MaxOtherThread
    /\ LET id == <<"hardcoded", Len(breadcrumbs) + 1, 0>>
           cipher == getRandomFallbackCipher(index, id, now)
       IN generateBreadcrumb(cipher, [userId |-> u])
    /\ UNCHANGED <<client, genVars, clockVars, cipherVars, guessVars, userRallies,
                   rateLimit, profiles, outVars, reqVars, sched>>

NextNarrative ==
    \E index \in NarrativeTemplates : RecordSolved(index, 1)

SpecNarrative == Init /\ [][NextNarrative]_vars

\* Every message the server has sent on a realtime channel.
SentMsgs ==
    UNION {{realtime[c][k] : k \in DOMAIN realtime[c]} : c \in DOMAIN realtime}

\* The unlock events sent for a narrative thread.
UnlockEvents(thread) ==
    {m \in SentMsgs : m.type = "thread_unlocked" /\ m.thread = thread}

\* C17: a narrative thread below its unlock threshold has no unlock event,
\* and one that has reached it (49 -> 50, and on to 51 and beyond) has
\* exactly one.
C17_UnlockAtThreshold ==
    \A thread \in Threads :
        Cardinality(UnlockEvents(thread))
            = IF ThreadCount(thread) >= UNLOCK_THRESHOLD THEN 1 ELSE 0

\* The counter saveBreadcrumb increments for a breadcrumb, next to the
\* global one: the only count the store keeps that is narrower than the
\* total.
KeptCount(breadcrumb) == breadcrumbCount[breadcrumb.thematic_category]

\* C18: recording a breadcrumb increments the count of its narrative thread
\* (the thread id of its cipher) by one: the count kept for a stored
\* breadcrumb is the number of breadcrumbs stored for its thread.
C18_ThreadCountIncremented ==
    \A k \in DOMAIN breadcrumbs :
        KeptCount(breadcrumbs[k]) = ThreadCount(breadcrumbs[k].narrative_thread_id)

\* ------------------------------------------------------------ winner flag
Winners(c) == {g \in DOMAIN guesses : guesses[g].cipherId = c /\ guesses[g].isWinner}

MaxVoteGuesses == 10
MaxVoteClock == 1

VoteGuessIds == 1..MaxVoteGuesses

InitVoteOver(ids) ==
    /\ now = 0
    /\ clockSteps = 0
    /\ ciphers = <<SampleCipher>>
    /\ activeIds = <<1>>
    /\ guesses = [g \in ids |->
                    [id |-> g, cipherId |-> 1, userId |-> 1, rallyCount |-> 0,
                     createdAt |-> 0, isWinner |-> FALSE]]
    /\ cipherGuesses = [c \in CipherIds |-> [g \in ids |-> g]]
    /\ userRallies = [u \in Users |-> <<>>]
    /\ rateLimit = [k \in {"rally", "guess"} |->
                      [u \in Users |-> [count |-> 0, expireAt |-> 0]]]
    /\ profiles = [u \in Users |-> [exists |-> FALSE, solves_count |-> 0]]
    /\ breadcrumbs = <<>>
    /\ breadcrumbCount = [total |-> 0, privacy |-> 0, auditing |-> 0, patents |-> 0]
    /\ realtime = [c \in CipherIds |-> <<>>]
    /\ rallyUpdates = [g \in ids |-> <<>>]
    /\ comments = <<>>
    /\ rallyReqs = EmptyBag
    /\ rallyAnswers = [u \in Users |-> [g \in ids |->
                         [accepted |-> 0, notfound |-> 0]]]
    /\ sched = SchedIdle
    /\ GenIdle
    /\ client = ClientIdle

InitVote == InitVoteOver(VoteGuessIds)

VoteBegin(u, g) ==
    RallyBeginWhen(u, g, /\ rallyReqs = EmptyBag
                         /\ g <= Len(userRallies[u]) + 1)

\* The clock passes the TTL of the rate-limit keys.
VoteClock ==
    /\ clockSteps < MaxVoteClock
    /\ now' = now + RATE_TTL_MS
    /\ clockSteps' = clockSteps + 1
    /\ UNCHANGED <<client, genVars, cipherVars, guessVars, userRallies, rateLimit, profiles,
                   narrativeVars, outVars, reqVars, sched>>

NextVote ==
    \/ VoteClock
    \/ \E u \in Users, g \in VoteGuessIds : VoteBegin(u, g)
    \/ \E r \in BagToSet(rallyReqs) : RallyAdd(r)
    \/ \E r \in BagToSet(rallyReqs) : RallyIncrement(r)

SpecVote == InitVote /\ [][NextVote]_vars

Voted(u, g) == rallyAnswers[u][g].accepted >= 1

\* C20 as stated: once a vote by u on g has completed, a vote by u on g is
\* answered 400 (already rallied).
C20_RepeatIsAlreadyVoted ==
    \A u \in Users : \A g \in DOMAIN rallyAnswers[u] :
        Voted(u, g) => RallyRejection(u, g) = 400

\* C20, amended: once a vote by u on g has completed, a vote by u on g is
\* rejected, with 400 (already rallied) or, when u's rally counter stands at
\* the limit, with 429; no request for the pair goes past the checks again,
\* the pair keeps its one accepted vote and its one rally record, the count
\* of g stays the number of users whose vote on g was accepted, and u's
\* rate-limit counter moves only with an accepted vote of u.
C20_RepeatRejected ==
    [][\A u \in Users : \A g \in DOMAIN rallyAnswers[u] :
          /\ Voted(u, g) =>
                /\ RallyRejection(u, g) \in {400, 429}
                /\ InFlight(u, g)' = 0
                /\ rallyAnswers'[u][g].accepted = 1
                /\ RallyRecords(u, g)' = RallyRecords(u, g)
          /\ guesses'[g].rallyCount = Cardinality({v \in Users : Voted(v, g)'})
          /\ rateLimit'["rally"][u] # rateLimit["rally"][u] =>
                \E h \in DOMAIN rallyAnswers[u] :
                   rallyAnswers'[u][h].accepted = rallyAnswers[u][h].accepted + 1
      ]_vars

\* A user whose vote on a guess has completed and whose rally counter stands
\* at the limit, and another whose repeated vote would be answered 400.
C20_Witness ==
    /\ \E u \in Users : \E g \in DOMAIN rallyAnswers[u] :
          Voted(u, g) /\ RallyRejection(u, g) = 429
    /\ \E u \in Users : \E g \in DOMAIN rallyAnswers[u] :
          Voted(u, g) /\ RallyRejection(u, g) = 400

\* ----------------------------------------------------- cipher store, alone
\* saveCipher, expireCipher and getActiveCiphers over several ciphers.  A
\* cipher is stamped when it is built and stored when its route gets to
\* storeCipher, StoreDelays later: ciphers are not stored in createdAt order.
MaxStoreCiphers == 3
MaxStoreClock == 6

StoreDelays == {0, LOCKDOWN_MS}

StoreCipherWithin(difficulty, delay, cap) ==
    /\ Cardinality(DOMAIN ciphers) < cap
    /\ now >= delay
    /\ LET timeLimit == getTimeLimitForDifficulty(difficulty)
       IN saveCipher([id |-> Cardinality(DOMAIN ciphers) + 1,
                      difficulty |-> difficulty,
                      timeLimit |-> timeLimit,
                      createdAt |-> now - delay,
                      expiresAt |-> now - delay + timeLimit * HOUR_MS,
                      isActive |-> TRUE,
                      category |-> "privacy",
                      narrative_thread_id |->
                          <<"uuid", Cardinality(DOMAIN ciphers) + 1>>])
    /\ UNCHANGED <<client, genVars, clockVars, guessVars, userRallies, rateLimit, profiles,
                   narrativeVars, outVars, reqVars, sched>>

StoreCipher(difficulty, delay) ==
    StoreCipherWithin(difficulty, delay, MaxStoreCiphers)

\* kvStore.expireCipher of handleCipherExpiration, called for a cipher whose
\* time has run out.
StoreExpire(c) ==
    /\ CipherStored(c)
    /\ ciphers[c].isActive
    /\ ciphers[c].expiresAt - now <= 0
    /\ ciphers' = expireCipher(c)
    /\ UNCHANGED <<client, genVars, clockVars, activeIds, guessVars, userRallies, rateLimit,
                   profiles, narrativeVars, outVars, reqVars, sched>>

StoreClock ==
    /\ clockSteps < MaxStoreClock
    /\ \E d \in {LOCKDOWN_MS, HOUR_MS} : now' = now + d
    /\ clockSteps' = clockSteps + 1
    /\ UNCHANGED <<client, genVars, cipherVars, guessVars, userRallies, rateLimit, profiles,
                   narrativeVars, outVars, reqVars, sched>>

NextStore ==
    \/ \E difficulty \in Difficulties, delay \in StoreDelays :
          StoreCipher(difficulty, delay)
    \/ \E c \in DOMAIN ciphers : StoreExpire(c)
    \/ StoreClock

SpecStore == Init /\ [][NextStore]_vars

\* The stored ciphers that are active and not yet expired.
ActiveNow ==
    {ciphers[c] : c \in {d \in DOMAIN ciphers :
                            ciphers[d].isActive /\ ciphers[d].expiresAt > now}}

MaxCreateCalls == 7
MAX_CONCURRENT_CIPHERS == 6

NextCreate ==
    \E difficulty \in Difficulties : StoreCipherWithin(difficulty, 0, MaxCreateCalls)

SpecCreate == Init /\ [][NextCreate]_vars

\* C22: at most MAX_CONCURRENT_CIPHERS ciphers are active (isActive, not yet
\* expired) at any moment.
C22_AtMostSixActive ==
    Cardinality(ActiveNow) <= MAX_CONCURRENT_CIPHERS

\* ------------------------------------------- one tick, with failing calls
\* POST /internal/scheduler/expireCiphers over MaxTickCiphers ciphers whose
\* store and realtime calls may throw.  handleCipherLockdown and
\* handleCipherExpiration catch everything thrown in them; realtime.send,
\* incrementUserSolves, generateBreadcrumb and postSolutionComment catch
\* their own errors, and the handler goes on.
MaxTickCiphers == 2

TickCipherIds == 1..MaxTickCiphers

TickCipher(id) == [SampleCipher EXCEPT !.id = id,
                                       !.narrative_thread_id = <<"uuid", id>>]

InitTickOver(t, stored) ==
    /\ now = t
    /\ clockSteps = 0
    /\ ciphers = stored
    /\ activeIds = [c \in TickCipherIds |-> c]
    /\ guesses = [g \in TickCipherIds |->
                    [id |-> g, cipherId |-> g, userId |-> 1, rallyCount |-> 1,
                     createdAt |-> 0, isWinner |-> FALSE]]
    /\ cipherGuesses = [c \in TickCipherIds |-> <<c>>]
    /\ userRallies = [u \in Users |-> <<>>]
    /\ rateLimit = [k \in {"rally", "guess"} |->
                      [u \in Users |-> [count |-> 0, expireAt |-> 0]]]
    /\ profiles = [u \in Users |-> [exists |-> TRUE, solves_count |-> 0]]
    /\ breadcrumbs = <<>>
    /\ breadcrumbCount = [total |-> 0, privacy |-> 0, auditing |-> 0, patents |-> 0]
    /\ realtime = [c \in TickCipherIds |-> <<>>]
    /\ rallyUpdates = [g \in TickCipherIds |-> <<>>]
    /\ comments = <<>>
    /\ rallyReqs = EmptyBag
    /\ rallyAnswers = [u \in Users |-> [g \in TickCipherIds |->
                         [accepted |-> 0, notfound |-> 0]]]
    /\ sched = SchedIdle
    /\ GenIdle
    /\ client = ClientIdle

InitTick ==
    InitTickOver(SampleCipher.expiresAt - LOCKDOWN_MS,
                 [c \in TickCipherIds |-> TickCipher(c)])

\* A throw that left the loop for the catch of the route (answer 500).
Rethrown(s) == [s EXCEPT !.pc = "idle", !.idx = 0, !.active = <<>>,
                         !.guesses = <<>>, !.winner = <<>>]

\* The catch of handleCipherExpiration: the error is logged, the handler
\* returns and the loop counts the cipher.
Caught(s) == SchedAdvance([s EXCEPT !.expiredCount = @ + 1])

\* getCipherGuesses, expireCipher or the hSet of isWinner throws.
SchedThrows ==
    /\ \/ sched.pc = "visit" /\ SchedCipher.expiresAt <= sched.now
       \/ sched.pc \in {"markExpired", "markWinner"}
    /\ sched' = Caught(sched)
    /\ UNCHANGED <<client, genVars, clockVars, cipherVars, guessVars, userRallies, rateLimit,
                   profiles, narrativeVars, outVars, reqVars>>

\* A call that catches its own error throws: realtime.send of either
\* message, incrementUserSolves, generateBreadcrumb, postSolutionComment.
\* Nothing is written and the handler goes on as after the call.
SchedCallFails ==
    /\ sched' =
          CASE sched.pc = "visit"
                 /\ SchedCipher.expiresAt - sched.now <= LOCKDOWN_MS
                 /\ SchedCipher.expiresAt - sched.now > 0 ->
                    SchedAdvance([sched EXCEPT !.lockedCount = @ + 1])
            [] sched.pc = "sendExpired" ->
                    [sched EXCEPT !.pc = IF sched.winner # <<>>
                                         THEN "markWinner" ELSE "comment"]
            [] sched.pc = "userSolves" -> [sched EXCEPT !.pc = "breadcrumb"]
            [] sched.pc = "breadcrumb" -> [sched EXCEPT !.pc = "comment"]
            [] sched.pc = "comment" -> Caught(sched)
            [] OTHER -> sched
    /\ sched' # sched
    /\ UNCHANGED <<client, genVars, clockVars, cipherVars, guessVars, userRallies, rateLimit,
                   profiles, narrativeVars, outVars, reqVars>>

NextTick ==
    \/ AdvanceTime
    \/ SchedStart
    \/ SchedReadNow
    \/ SchedVisit
    \/ SchedDetermine
    \/ SchedMarkExpired
    \/ SchedSendExpired
    \/ SchedMarkWinner
    \/ SchedUserSolves
    \/ SchedBreadcrumb
    \/ SchedComment
    \/ SchedThrows
    \/ SchedCallFails

SpecTick == InitTick /\ [][NextTick]_vars

\* The ciphers of the job's list that the loop counts as expired, as locked.
TickExpired == {k \in DOMAIN sched.active : sched.active[k].expiresAt <= sched.now}

TickLocked ==
    {k \in DOMAIN sched.active :
        /\ sched.active[k].expiresAt - sched.now <= LOCKDOWN_MS
        /\ sched.active[k].expiresAt - sched.now > 0}

\* C23: whatever call fails while a cipher is handled, the loop goes on to
\* the next cipher of the list (or ends after the last), and the job ends
\* after the last cipher with expiredCount and lockedCount counting every
\* cipher of the list that was expired, locked.
C23_FailuresIsolated ==
    [][/\ (sched.pc \notin {"idle", "readNow"} /\ sched'.idx # sched.idx) =>
             \/ sched'.idx = sched.idx + 1 /\ sched'.pc = "visit"
             \/ sched.idx = Len(sched.active) /\ sched'.pc = "idle"
       /\ (sched.pc # "idle" /\ sched'.pc = "idle") =>
             /\ sched.idx = Len(sched.active)
             /\ sched'.expiredCount = Cardinality(TickExpired)
             /\ sched'.lockedCount = Cardinality(TickLocked)]_vars

\* A finished job that counted two expired ciphers: the handling of the
\* first failed before the cipher was marked expired, the second was
\* handled to the end.
C23_Witness ==
    /\ sched.pc = "idle"
    /\ sched.expiredCount = 2
    /\ ciphers[1].isActive
    /\ ~ciphers[2].isActive
    /\ Len(ExpiredMsgs(2)) = 1
    /\ Len(comments) = 1

\* ------------------------------------------------ the job on a fixed period
\* expireCiphers started every TICK_INTERVAL_MS, a job returning before the
\* next one starts, over two ciphers whose expiry falls anywhere between
\* two starts.  Inside a job the clock moves between any two steps; no call
\* of the job fails.
TICK_INTERVAL_MS == 5000
MaxLockTicks == 5
MaxLockClock == 2

LockBase == SampleCipher.expiresAt - 3 * TICK_INTERVAL_MS

\* createdAt of the ciphers, which sets where in a period they expire.
LockPhases == {0, 1, 2500, 4999}

LockCipher(id, phase) ==
    [TickCipher(id) EXCEPT !.createdAt = phase,
                           !.expiresAt = phase + SampleCipher.timeLimit * HOUR_MS]

InitLock ==
    \E phase \in [TickCipherIds -> LockPhases] :
        InitTickOver(LockBase, [c \in TickCipherIds |-> LockCipher(c, phase[c])])

NextTickAt == LockBase + (sched.ticks + 1) * TICK_INTERVAL_MS

LockStart == SchedStartWhen(sched.ticks < MaxLockTicks /\ now = NextTickAt)

\* Time passes up to the next start of the job.
LockWait ==
    /\ now < NextTickAt
    /\ sched.pc = "idle"
    /\ sched.ticks < MaxLockTicks
    /\ now' = NextTickAt
    /\ UNCHANGED <<client, genVars, clockSteps, cipherVars, guessVars, userRallies,
                   rateLimit, profiles, narrativeVars, outVars, reqVars, sched>>

\* A millisecond passes inside a job.
LockDelay ==
    /\ clockSteps < MaxLockClock
    /\ sched.pc # "idle"
    /\ now + 1 <= NextTickAt
    /\ now' = now + 1
    /\ clockSteps' = clockSteps + 1
    /\ UNCHANGED <<client, genVars, cipherVars, guessVars, userRallies, rateLimit,
                   profiles, narrativeVars, outVars, reqVars, sched>>

NextLock ==
    \/ LockStart
    \/ LockWait
    \/ LockDelay
    \/ SchedReadNow
    \/ SchedVisit
    \/ SchedDetermine
    \/ SchedMarkExpired
    \/ SchedSendExpired
    \/ SchedMarkWinner
    \/ SchedUserSolves
    \/ SchedBreadcrumb
    \/ SchedComment

SpecLock == InitLock /\ [][NextLock]_vars

\* C28: with the job started every 5 seconds, the lockdown of every cipher
\* has been announced when the cipher expires, and a cipher_expired message
\* of a cipher comes after a cipher_lockdown message of it.
C28_LockdownBeforeExpired ==
    \A c \in DOMAIN ciphers :
        /\ now >= ciphers[c].expiresAt => LockdownMsgs(c) # <<>>
        /\ \A k \in DOMAIN realtime[c] :
              realtime[c][k].type = "cipher_expired" =>
                 \E j \in 1..(k - 1) : realtime[c][j].type = "cipher_lockdown"

\* A cipher announced as locked and then as expired, and another past its
\* expiry that was announced as locked.
C28_Witness ==
    \E c, d \in DOMAIN ciphers :
        /\ c # d
        /\ ExpiredMsgs(c) # <<>>
        /\ LockdownMsgs(c) # <<>>
        /\ now >= ciphers[d].expiresAt
        /\ LockdownMsgs(d) # <<>>
        /\ ciphers[d].isActive

\* ------------------------------------------------- votes on a failing store
\* POST /api/rally-guess, one request at a time, where a redis call of the
\* handler may reject: the catch of the route answers 500 and what was
\* written before stays written.
InitFail == InitVoteOver(GuessIds)

FailBegin(u, g) == RallyBeginWhen(u, g, rallyReqs = EmptyBag)

\* addRally rejects before the rally is in the user's index (at hSet, at
\* incrBy, or at set of the index key): hasUserRallied does not see it.
RallyAddFails(r) ==
    /\ r.pc = "checked"
    /\ r.guessId \in DOMAIN guesses
    /\ rallyReqs' = rallyReqs (-) SetToBag({r})
    /\ UNCHANGED <<client, genVars, clockVars, cipherVars, guessVars, userRallies,
                   rateLimit, profiles, narrativeVars, outVars, rallyAnswers, sched>>

\* incrementRallyCount rejects after addRally has returned.
RallyIncrementFails(r) ==
    /\ r.pc = "added"
    /\ rallyReqs' = rallyReqs (-) SetToBag({r})
    /\ UNCHANGED <<client, genVars, clockVars, cipherVars, guessVars, userRallies,
                   rateLimit, profiles, narrativeVars, outVars, rallyAnswers, sched>>

\* redis.incrBy of the rate-limit key rejects after the count was incremented
\* and the rally_update message sent.
RallyLimitFails(r) ==
    /\ r.pc = "added"
    /\ LET after == incrementRallyCount(guesses, r.guessId)
       IN /\ guesses' = after
          /\ rallyUpdates' = [rallyUpdates EXCEPT ![r.guessId] =
                                Append(@, after[r.guessId].rallyCount)]
    /\ rallyReqs' = rallyReqs (-) SetToBag({r})
    /\ UNCHANGED <<client, genVars, clockVars, cipherVars, cipherGuesses, userRallies,
                   rateLimit, profiles, narrativeVars, realtime, comments,
                   rallyAnswers, sched>>

NextFail ==
    \/ \E u \in Users, g \in GuessIds : FailBegin(u, g)
    \/ \E r \in BagToSet(rallyReqs) : RallyAdd(r)
    \/ \E r \in BagToSet(rallyReqs) : RallyAddFails(r)
    \/ \E r \in BagToSet(rallyReqs) : RallyIncrement(r)
    \/ \E r \in BagToSet(rallyReqs) : RallyIncrementFails(r)
    \/ \E r \in BagToSet(rallyReqs) : RallyLimitFails(r)

SpecFail == InitFail /\ [][NextFail]_vars

\* C29: once every request has been answered, also those answered with an
\* error after a store failure, the count of a guess is the number of users
\* registered as having voted for it.
C29_NoPartialVote ==
    rallyReqs = EmptyBag =>
        \A g \in DOMAIN guesses :
            guesses[g].rallyCount = Cardinality({u \in Users : hasUserRallied(u, g)})

\* --------------------------------------------- a client that falls back
\* GuessesSection and RealtimeService of the client over one cipher whose
\* guesses receive votes: the page loads the guesses and connects; while
\* connected it applies the rally_update messages delivered; disconnected,
\* it polls GET /api/cipher/:cipherId/rally-updates; messages sent while it
\* is disconnected are not delivered later.
InitPoll == InitVoteOver(GuessIds)

\* The answer of GET /api/cipher/:cipherId/rally-updates: data.updates.
rallyUpdatesAnswer(cid) == <<>>

\* setGuesses(prev => prev.map(...)) for each update, in order.
RECURSIVE ApplyUpdates(_, _)
ApplyUpdates(shown, updates) ==
    IF updates = <<>> THEN shown
    ELSE ApplyUpdates([shown EXCEPT ![Head(updates).guessId] =
                                       Head(updates).newRallyCount],
                      Tail(updates))

StoredCounts == [g \in DOMAIN guesses |-> guesses[g].rallyCount]

SentSoFar == [g \in DOMAIN rallyUpdates |-> Len(rallyUpdates[g])]

clientFrame == <<genVars, clockVars, cipherVars, guessVars, userRallies, rateLimit,
                 profiles, narrativeVars, outVars, reqVars, sched>>

\* fetchGuesses and realtimeService.connect of the mounted component.
ClientMount ==
    /\ ~client.mounted
    /\ client' = [client EXCEPT !.mounted = TRUE, !.connected = TRUE,
                                 !.shown = StoredCounts, !.seen = SentSoFar,
                                 !.polled = <<>>]
    /\ UNCHANGED clientFrame

\* onMessage: the next rally_update of guess g is delivered.
ClientReceive(g) ==
    /\ client.mounted /\ client.connected
    /\ client.seen[g] < Len(rallyUpdates[g])
    /\ client' = [client EXCEPT
                    !.seen[g] = @ + 1,
                    !.shown = ApplyUpdates(@, <<[guessId |-> g,
                                                 newRallyCount |->
                                                   rallyUpdates[g][client.seen[g] + 1]]>>)]
    /\ UNCHANGED clientFrame

\* onDisconnect: fallback polling starts.
ClientDisconnect ==
    /\ client.mounted /\ client.connected
    /\ client' = [client EXCEPT !.connected = FALSE]
    /\ UNCHANGED clientFrame

\* onConnect after scheduleReconnect: polling stops; what was sent in the
\* meantime is gone.
ClientReconnect ==
    /\ client.mounted /\ ~client.connected
    /\ client' = [client EXCEPT !.connected = TRUE, !.seen = SentSoFar,
                                !.polled = <<>>]
    /\ UNCHANGED clientFrame

\* One round of the fallback interval: the updates of the answer are
\* passed to the message callbacks.  polled notes the counts the store held
\* when the poll was answered.
ClientPoll ==
    /\ client.mounted /\ ~client.connected
    /\ client' = [client EXCEPT
                    !.shown = ApplyUpdates(@, rallyUpdatesAnswer(1)),
                    !.polled = <<StoredCounts>>]
    /\ UNCHANGED clientFrame

NextPoll ==
    \/ \E u \in Users, g \in GuessIds : VoteBegin(u, g)
    \/ \E r \in BagToSet(rallyReqs) : RallyAdd(r)
    \/ \E r \in BagToSet(rallyReqs) : RallyIncrement(r)
    \/ ClientMount
    \/ \E g \in GuessIds : ClientReceive(g)
    \/ ClientDisconnect
    \/ ClientReconnect
    \/ ClientPoll

SpecPoll == InitPoll /\ [][NextPoll]_vars

\* C24: once a disconnected client has polled, it shows for every guess at
\* least the count the store held when the poll was answered: the votes
\* registered while it was disconnected have reached it.
C24_PollCatchesUp ==
    client.polled # <<>> =>
        \A g \in DOMAIN client.shown : client.shown[g] >= client.polled[1][g]

\* -------------------------------------------------- guess text validation
\* ValidationService.validateGuess and sanitizeInput over texts, a text
\* being a sequence of characters.  The characters stand for their classes:
\* a letter, a digit, the space, another white-space character (the tab,
\* which \\s matches as well) and a character of no allowed class.
MaxTextLen == 3
MaxValidateSubmits == 2
MAX_GUESS_LEN == 100

Letters == {"a"}
Digits == {"7"}
WhiteSpace == {" ", "\t"}
Alphabet == Letters \cup Digits \cup WhiteSpace \cup {"<"}

ShortTexts == UNION {[1..n -> Alphabet] : n \in 0..MaxTextLen}

\* Texts at and just over the length limit.
LongTexts ==
    {[k \in 1..n |-> "a"] : n \in {MAX_GUESS_LEN, MAX_GUESS_LEN + 1}}
      \cup {[k \in 1..(MAX_GUESS_LEN + 1) |-> IF k > MAX_GUESS_LEN THEN " " ELSE "a"]}

Texts == ShortTexts \cup LongTexts

\* String.prototype.trim
Trim(t) ==
    LET inked == {k \in DOMAIN t : t[k] \notin WhiteSpace}
    IN IF inked = {} THEN <<>>
       ELSE SubSeq(t, CHOOSE k \in inked : \A m \in inked : k <= m,
                      CHOOSE k \in inked : \A m \in inked : k >= m)

Positions1(t) == [k \in 1..Len(t) |-> k]

\* .replace(/<[^>]*>/g, ''): every "<" up to the next ">" is removed.
InTag(t, k) ==
    \E i \in 1..k, j \in k..Len(t) :
        /\ i < j
        /\ t[i] = "<" /\ t[j] = ">"
        /\ \A m \in i..(j - 1) : t[m] # ">"

StripTags(t) ==
    LET kept == SelectSeq(Positions1(t), LAMBDA k : ~InTag(t, k))
    IN [n \in 1..Len(kept) |-> t[kept[n]]]

\* .replace(/\s+/g, ' '): each run of white space becomes one space.
CollapseSpaces(t) ==
    LET kept == SelectSeq(Positions1(t),
                          LAMBDA k : \/ t[k] \notin WhiteSpace
                                     \/ k = 1
                                     \/ t[k - 1] \notin WhiteSpace)
    IN [n \in 1..Len(kept) |-> IF t[kept[n]] \in WhiteSpace THEN " " ELSE t[kept[n]]]

\* The javascript: and on...= replacements need ":" and "=", which no text
\* here holds.
sanitizeInput(input) ==
    LET sanitized == SelectSeq(StripTags(input), LAMBDA c : c \notin {"<", ">"})
    IN CollapseSpaces(Trim(sanitized))

validateGuess(content) ==
    IF Len(content) = 0 THEN [isValid |-> FALSE, sanitized |-> <<>>]
    ELSE IF Len(content) > MAX_GUESS_LEN THEN [isValid |-> FALSE, sanitized |-> <<>>]
    ELSE IF \E k \in DOMAIN content :
               content[k] \notin Letters \cup Digits \cup WhiteSpace
    THEN [isValid |-> FALSE, sanitized |-> <<>>]
    ELSE IF \E k \in 1..(Len(content) - 1) :
               content[k] \in WhiteSpace /\ content[k + 1] \in WhiteSpace
    THEN [isValid |-> FALSE, sanitized |-> <<>>]
    ELSE [isValid |-> TRUE, sanitized |-> sanitizeInput(content)]

\* POST /api/submit-guess with a text: 400 when the text is missing or not
\* valid; else the checks of SubmitAccepted, the guess record and the
\* rate-limit counter.
SubmitText(u, cid, content) ==
    /\ Cardinality(DOMAIN guesses) < MaxValidateSubmits
    /\ content # <<>>
    /\ validateGuess(content).isValid
    /\ SubmitAccepted(u, cid)
    /\ LET validation == validateGuess(content)
       IN saveGuess([id |-> Cardinality(DOMAIN guesses) + 1,
                     cipherId |-> cid,
                     userId |-> u,
                     content |-> IF validation.sanitized # <<>>
                                 THEN validation.sanitized ELSE Trim(content),
                     rallyCount |-> 0,
                     createdAt |-> now,
                     isWinner |-> FALSE])
    /\ rateLimit' = RateBump("guess", u)
    /\ UNCHANGED <<client, genVars, clockVars, cipherVars, userRallies, profiles,
                   narrativeVars, outVars, reqVars, sched>>

NextValidate ==
    \E u \in Users, content \in Texts : SubmitText(u, 1, content)

SpecValidate == InitRate /\ [][NextValidate]_vars

\* C25: the content of every stored guess is not empty, has at most
\* MAX_GUESS_LEN characters, each a letter, a digit or the space, and has
\* no two spaces in a row: a text that is empty after trimming, too long,
\* or has another character or a run of spaces was rejected.
C25_StoredContentNormalized ==
    \A g \in DOMAIN guesses :
        LET content == guesses[g].content
        IN /\ Len(content) > 0
           /\ Len(content) <= MAX_GUESS_LEN
           /\ \A k \in DOMAIN content : content[k] \in Letters \cup Digits \cup {" "}
           /\ \A k \in 1..(Len(content) - 1) :
                 ~(content[k] = " " /\ content[k + 1] = " ")

\* ------------------------------------------- rally limit, requests at once
\* POST /api/rally-guess with two requests in flight, for a user whose
\* rate-limit key stands one below the limit: nine votes of user 1, on the
\* guesses 1..9, were accepted at time 0, and the votes now requested are
\* for the two guesses left.  Time stands still, so every accepted vote
\* lies in one span of 60 seconds.
MaxRaceInFlight == 2

RaceGuessIds == 1..(RALLY_LIMIT + 1)

RaceVoted == 1..(RALLY_LIMIT - 1)

InitRace ==
    /\ now = 0
    /\ clockSteps = 0
    /\ ciphers = <<SampleCipher>>
    /\ activeIds = <<1>>
    /\ guesses = [g \in RaceGuessIds |->
                    [id |-> g, cipherId |-> 1, userId |-> 2,
                     rallyCount |-> IF g \in RaceVoted THEN 1 ELSE 0,
                     createdAt |-> 0, isWinner |-> FALSE]]
    /\ cipherGuesses = [c \in CipherIds |-> [g \in RaceGuessIds |-> g]]
    /\ userRallies = [u \in Users |->
                        IF u = 1
                        THEN [g \in RaceVoted |->
                                [guessId |-> g, userId |-> 1, createdAt |-> 0]]
                        ELSE <<>>]
    /\ rateLimit = [k \in {"rally", "guess"} |->
                      [u \in Users |->
                         IF k = "rally" /\ u = 1
                         THEN [count |-> RALLY_LIMIT - 1, expireAt |-> RATE_TTL_MS]
                         ELSE [count |-> 0, expireAt |-> 0]]]
    /\ profiles = [u \in Users |-> [exists |-> FALSE, solves_count |-> 0]]
    /\ breadcrumbs = <<>>
    /\ breadcrumbCount = [total |-> 0, privacy |-> 0, auditing |-> 0, patents |-> 0]
    /\ realtime = [c \in CipherIds |-> <<>>]
    /\ rallyUpdates = [g \in RaceGuessIds |->
                         IF g \in RaceVoted THEN <<1>> ELSE <<>>]
    /\ comments = <<>>
    /\ rallyReqs = EmptyBag
    /\ rallyAnswers = [u \in Users |-> [g \in RaceGuessIds |->
                         [accepted |-> IF u = 1 /\ g \in RaceVoted THEN 1 ELSE 0,
                          notfound |-> 0]]]
    /\ sched = SchedIdle
    /\ GenIdle
    /\ client = ClientIdle

RaceBegin(u, g) ==
    RallyBeginWhen(u, g, BagCardinality(rallyReqs) < MaxRaceInFlight)

NextRace ==
    \/ \E u \in Users, g \in RaceGuessIds \ RaceVoted : RaceBegin(u, g)
    \/ \E r \in BagToSet(rallyReqs) : RallyAdd(r)
    \/ \E r \in BagToSet(rallyReqs) : RallyIncrement(r)

SpecRace == InitRace /\ [][NextRace]_vars

AcceptedRallies(u) ==
    SumOver(DOMAIN rallyAnswers[u],
            [g \in DOMAIN rallyAnswers[u] |-> rallyAnswers[u][g].accepted])

\* C31: whatever the interleaving of a user's requests, no more than
\* RALLY_LIMIT of the user's votes are accepted within 60 seconds (here:
\* at one instant).  The submit handler reads and increments its counter
\* in the same two separate steps.
C31_LimitUnderConcurrency ==
    \A u \in Users : AcceptedRallies(u) <= RALLY_LIMIT

\* --------------------------------------------------- a realtime that fails
\* The expiration job and the rally handler where realtime.send may throw,
\* and nothing else fails: each send sits in a try/catch of its own that
\* logs the error.
\* The send of cipher_expired threw, and the error left handleCipherExpiration.
SendFailedThrows(s) == Caught(s)

\* The send of cipher_expired threw and was logged: the handler goes on.
SendFailed(s) ==
    [s EXCEPT !.pc = IF s.winner # <<>> THEN "markWinner" ELSE "comment"]

\* realtime.send of cipher_lockdown or of cipher_expired throws.
SchedSendFails ==
    /\ \/ /\ sched.pc = "visit"
          /\ InLockdown(SchedCipher.expiresAt - sched.now)
          /\ sched' = SchedAdvance([sched EXCEPT !.lockedCount = @ + 1])
       \/ /\ sched.pc = "sendExpired"
          /\ sched' = SendFailed(sched)
    /\ UNCHANGED <<client, genVars, clockVars, cipherVars, guessVars, userRallies,
                   rateLimit, profiles, narrativeVars, outVars, reqVars>>

\* realtime.send of rally_update throws: the count was incremented before,
\* the rate-limit counter and the 200 answer follow.
RallySendFails(r) ==
    /\ r.pc = "added"
    /\ guesses' = incrementRallyCount(guesses, r.guessId)
    /\ rateLimit' = RateBump("rally", r.userId)
    /\ rallyReqs' = rallyReqs (-) SetToBag({r})
    /\ rallyAnswers' = [rallyAnswers EXCEPT
                          ![r.userId][r.guessId].accepted = @ + 1]
    /\ UNCHANGED <<client, genVars, clockVars, cipherVars, cipherGuesses, userRallies,
                   profiles, narrativeVars, outVars, sched>>

NextLossy ==
    \/ AdvanceTime
    \/ SchedStart
    \/ SchedReadNow
    \/ SchedVisit
    \/ SchedDetermine
    \/ SchedMarkExpired
    \/ SchedSendExpired
    \/ SchedMarkWinner
    \/ SchedUserSolves
    \/ SchedBreadcrumb
    \/ SchedComment
    \/ SchedSendFails
    \/ \E u \in Users : FailBegin(u, 1)
    \/ \E r \in BagToSet(rallyReqs) : RallyAdd(r)
    \/ \E r \in BagToSet(rallyReqs) : RallyIncrement(r)
    \/ \E r \in BagToSet(rallyReqs) : RallySendFails(r)

SpecLossy == InitTick /\ [][NextLossy]_vars

\* The job is not in the middle of handling cipher c.
Handled(c) ==
    /\ ~ciphers[c].isActive
    /\ sched.pc \notin {"idle", "readNow"} => SchedCipher.id # c

\* C32: with sends that fail, a vote whose request was answered is counted
\* and registered, and a cipher marked expired has, once its handling is
\* over, its winner flagged, the winner's solves counted and its breadcrumb
\* written.  (Every guess here starts with one vote, so there is a winner.)
C32_FanoutBestEffort ==
    /\ rallyReqs = EmptyBag =>
          \A g \in DOMAIN guesses :
              /\ guesses[g].rallyCount =
                    1 + Cardinality({u \in Users : rallyAnswers[u][g].accepted = 1})
              /\ \A u \in Users :
                    rallyAnswers[u][g].accepted = 1 <=> hasUserRallied(u, g)
    /\ \A c \in DOMAIN ciphers :
          Handled(c) =>
              /\ \E g \in DOMAIN guesses :
                    /\ guesses[g].cipherId = c
                    /\ guesses[g].isWinner
                    /\ profiles[guesses[g].userId].solves_count >= 1
              /\ \E k \in 1..Len(breadcrumbs) : breadcrumbs[k].cipherId = c

\* A cipher handled to the end without any message of it sent, and a vote
\* accepted without its rally_update.
C32_Witness ==
    /\ \E c \in DOMAIN ciphers : Handled(c) /\ realtime[c] = <<>>
    /\ \E u \in Users : /\ rallyAnswers[u][1].accepted = 1
                         /\ rallyUpdates[1] = <<>>
    /\ rallyReqs = EmptyBag

\* ------------------------------------------------- RealtimeService, alone
\* The singleton RealtimeService of the client under one GuessesSection:
\* the component mounts (connect) and may unmount (disconnect); every call
\* of connectRealtime resolves or rejects; a connection that resolved may
\* call onConnect and then onDisconnect; the reconnect timer fires.  Each
\* callback runs to its end before the next one starts.
MaxRtConnects == 7
maxReconnectAttempts == 5

setConnectionStatus(rt, isConnected, isReconnecting) ==
    [rt EXCEPT !.isConnected = isConnected, !.isReconnecting = isReconnecting]

\* startFallbackPolling without its first line.
startFallbackPollingAgain(rt) ==
    [rt EXCEPT !.fallbackInterval = TRUE, !.pollTimers = @ + 1]

startFallbackPolling(rt) ==
    IF rt.fallbackInterval THEN rt
    ELSE [rt EXCEPT !.fallbackInterval = TRUE, !.pollTimers = @ + 1]

stopFallbackPolling(rt) ==
    IF rt.fallbackInterval
    THEN [rt EXCEPT !.fallbackInterval = FALSE, !.pollTimers = @ - 1]
    ELSE rt

\* clearTimeout of a timer that has fired cancels nothing.
clearReconnectTimeout(rt) ==
    IF rt.reconnectTimeout = "null" THEN rt
    ELSE [rt EXCEPT !.reconnectTimeout = "null",
                    !.timers = IF rt.reconnectTimeout = "armed" THEN @ - 1 ELSE @]

\* A delay of one second whatever the attempt.
BackoffFlat(attempts) == 1000

\* Math.min(1000 * Math.pow(2, this.reconnectAttempts), 16000)
BackoffDelay(attempts) ==
    IF 1000 * 2^attempts < 16000 THEN 1000 * 2^attempts ELSE 16000

scheduleReconnect(rt) ==
    IF rt.reconnectAttempts >= maxReconnectAttempts THEN rt
    ELSE [clearReconnectTimeout(rt) EXCEPT
             !.reconnectTimeout = "armed", !.timers = @ + 1,
             !.delay = BackoffDelay(rt.reconnectAttempts),
             !.scheduled = @ + 1]

\* connect up to its await: the status, and the call of connectRealtime.
connect(rt) ==
    [setConnectionStatus(rt, FALSE, TRUE) EXCEPT !.conns = Append(@, "pending")]

RtStep(rt) ==
    /\ client' = [client EXCEPT !.rt = rt]
    /\ UNCHANGED clientFrame

\* useEffect of GuessesSection: realtimeService.connect(cipherId).
RtMount ==
    /\ client.rt.phase = "new"
    /\ RtStep([connect(client.rt) EXCEPT !.phase = "mounted"])

\* connectRealtime resolves: this.connection is the new connection.
RtResolve(c) ==
    /\ client.rt.conns[c] = "pending"
    /\ RtStep([client.rt EXCEPT !.conns[c] = "open", !.connection = c])

\* connectRealtime rejects: the catch of connect.
RtReject(c) ==
    /\ client.rt.conns[c] = "pending"
    /\ RtStep(scheduleReconnect(startFallbackPolling(
                 setConnectionStatus([client.rt EXCEPT !.conns[c] = "failed"],
                                     FALSE, FALSE))))

RtOnConnect(c) ==
    /\ client.rt.conns[c] = "open"
    /\ RtStep(stopFallbackPolling(
                 setConnectionStatus([client.rt EXCEPT !.conns[c] = "up",
                                                       !.reconnectAttempts = 0],
                                     TRUE, FALSE)))

\* onDisconnect of a connection that was up, also of one being closed.
RtOnDisconnect(c) ==
    /\ client.rt.conns[c] \in {"up", "closing"}
    /\ RtStep(scheduleReconnect(startFallbackPolling(
                 setConnectionStatus(
                    [client.rt EXCEPT !.conns[c] =
                        IF @ = "up" THEN "down" ELSE "closed"],
                    FALSE, FALSE))))

\* The reconnect timer fires: reconnectAttempts++ and connect.
RtTimerFires ==
    /\ client.rt.reconnectTimeout = "armed"
    /\ Len(client.rt.conns) < MaxRtConnects
    /\ RtStep(connect([client.rt EXCEPT !.reconnectTimeout = "fired",
                                        !.timers = @ - 1,
                                        !.reconnectAttempts = @ + 1]))

\* disconnect after its await, or all of it when there is no connection.
DisconnectRest(rt) ==
    [setConnectionStatus(
        clearReconnectTimeout(stopFallbackPolling([rt EXCEPT !.connection = 0])),
        FALSE, FALSE) EXCEPT !.phase = "unmounted"]

\* The cleanup of the effect: realtimeService.disconnect(), up to its await
\* of connection.disconnect() when there is a connection.
RtUnmount ==
    /\ client.rt.phase = "mounted"
    /\ IF client.rt.connection = 0
       THEN RtStep(DisconnectRest(client.rt))
       ELSE RtStep([client.rt EXCEPT
                      !.phase = "closing",
                      !.conns[client.rt.connection] =
                          IF @ = "up" THEN "closing" ELSE "closed"])

RtUnmountEnd ==
    /\ client.rt.phase = "closing"
    /\ RtStep(DisconnectRest(client.rt))

NextRt ==
    \/ RtMount
    \/ \E c \in DOMAIN client.rt.conns : RtResolve(c)
    \/ \E c \in DOMAIN client.rt.conns : RtReject(c)
    \/ \E c \in DOMAIN client.rt.conns : RtOnConnect(c)
    \/ \E c \in DOMAIN client.rt.conns : RtOnDisconnect(c)
    \/ RtTimerFires
    \/ RtUnmount
    \/ RtUnmountEnd

SpecRt == Init /\ [][NextRt]_vars

\* The delays the claim lists, by the number of attempts made so far.
BackoffTable == <<1000, 2000, 4000, 8000, 16000>>

\* C33: a reconnect is scheduled only with fewer than 5 attempts made, with
\* the delay 1, 2, 4, 8, 16 s of that attempt; reconnectAttempts never
\* exceeds 5; and a connect that succeeds sets reconnectAttempts to 0.
C33_Backoff ==
    [][/\ client'.rt.reconnectAttempts <= maxReconnectAttempts
       /\ client'.rt.scheduled # client.rt.scheduled =>
             /\ client.rt.reconnectAttempts < maxReconnectAttempts
             /\ client'.rt.delay = BackoffTable[client.rt.reconnectAttempts + 1]
             /\ client'.rt.timers = 1
       /\ (client'.rt.isConnected /\ ~client.rt.isConnected) =>
             client'.rt.reconnectAttempts = 0]_vars

\* Five attempts made and failed, the last after 16 s, and nothing scheduled.
C33_Witness ==
    /\ client.rt.reconnectAttempts = maxReconnectAttempts
    /\ client.rt.delay = 16000
    /\ client.rt.scheduled = maxReconnectAttempts
    /\ client.rt.timers = 0
    /\ client.rt.conns[Len(client.rt.conns)] = "failed"

\* C37: isConnected and isReconnecting are never both true, at most one
\* fallback-polling timer and at most one reconnect timer run, and while
\* the status is connected no fallback polling runs.
C37_ClientStateInvariant ==
    /\ ~(client.rt.isConnected /\ client.rt.isReconnecting)
    /\ client.rt.pollTimers <= 1
    /\ client.rt.timers <= 1
    /\ client.rt.isConnected => client.rt.pollTimers = 0

\* Connected again after a failed connect: the polling that the failure
\* started is stopped, and the reconnect that it scheduled has fired.
C37_Witness ==
    /\ client.rt.isConnected
    /\ client.rt.scheduled >= 1
    /\ client.rt.pollTimers = 0
    /\ Len(client.rt.conns) >= 2

\* C38: once disconnect() has completed, no fallback-polling timer and no
\* reconnect timer runs, whatever callback fires afterwards.
C38_QuiescentAfterDisconnect ==
    client.rt.phase = "unmounted" =>
        client.rt.pollTimers = 0 /\ client.rt.timers = 0

\* ------------------------------------- getFallbackCipherPool, turn by turn
\* One call of getFallbackCipherPool(count), taken a turn of each of its two
\* loops at a time: gens[1] holds the locals of the call.  Math.random draws
\* any of PoolDrawValues; the clock stands still.
MaxPoolCount == 12
PoolCounts == (0..MaxPoolCount) \cup {FALLBACK_POOL_SIZE}
PoolDrawValues == {0, 7, 9}

poolFrame == <<genFrame, cipherVars, pool, solutionHashes, backupMode, uuids>>

\* The outer loop without its second condition.
PoolLoopGuardCountOnly(p) == Len(p.ciphers) < p.count

\* while (ciphers.length < count && usedIndices.size < FALLBACK_CIPHERS.length)
PoolLoopGuard(p) ==
    /\ Len(p.ciphers) < p.count
    /\ Cardinality(p.usedIndices) < Len(FALLBACK_CIPHERS)

PoolCall(count) ==
    /\ gens = <<>>
    /\ gens' = <<[pc |-> "while", count |-> count, ciphers |-> <<>>,
                  usedIndices |-> {}, index |-> 0, probes |-> 0]>>
    /\ UNCHANGED poolFrame

\* let index = Math.floor(Math.random() * FALLBACK_CIPHERS.length)
PoolDraw(r) ==
    /\ gens # <<>>
    /\ gens[1].pc = "while"
    /\ PoolLoopGuard(gens[1])
    /\ gens' = [gens EXCEPT ![1].pc = "probe", ![1].index = r, ![1].probes = 0]
    /\ UNCHANGED poolFrame

\* while (usedIndices.has(index)) index = (index + 1) % length
PoolProbe ==
    /\ gens # <<>>
    /\ gens[1].pc = "probe"
    /\ gens[1].index \in gens[1].usedIndices
    /\ gens' = [gens EXCEPT ![1].index = (@ + 1) % Len(FALLBACK_CIPHERS),
                            ![1].probes = IF @ < Len(FALLBACK_CIPHERS)
                                          THEN @ + 1 ELSE @]
    /\ UNCHANGED poolFrame

\* usedIndices.add(index); ciphers.push({...template, id: uuidv4(), ...})
PoolPush ==
    /\ gens # <<>>
    /\ gens[1].pc = "probe"
    /\ gens[1].index \notin gens[1].usedIndices
    /\ gens' = [gens EXCEPT
                  ![1].pc = "while",
                  ![1].usedIndices = @ \cup {gens[1].index},
                  ![1].ciphers =
                      Append(@, FromTemplate(FALLBACK_CIPHERS[gens[1].index + 1],
                                             <<"pool", 1, Len(@) + 1>>,
                                             now, "pool"))]
    /\ UNCHANGED poolFrame

\* return ciphers
PoolReturn ==
    /\ gens # <<>>
    /\ gens[1].pc = "while"
    /\ ~PoolLoopGuard(gens[1])
    /\ gens' = [gens EXCEPT ![1].pc = "returned"]
    /\ UNCHANGED poolFrame

NextPool ==
    \/ \E count \in PoolCounts : PoolCall(count)
    \/ \E r \in PoolDrawValues : PoolDraw(r)
    \/ PoolProbe
    \/ PoolPush
    \/ PoolReturn

\* Every turn of either loop that can be taken is taken in the end.
SpecPool == Init /\ [][NextPool]_vars /\ WF_vars(NextPool)

PoolReturned == gens # <<>> /\ gens[1].pc = "returned"

MinOf(a, b) == IF a < b THEN a ELSE b

\* C39: every call of getFallbackCipherPool(count) returns; what it returns
\* is min(count, number of templates) ciphers, no two of one template; and
\* the inner loop stops at an unused index before it has gone round.
C39_PoolTerminates ==
    /\ [](gens # <<>> => <>PoolReturned)
    /\ [](PoolReturned =>
            /\ Len(gens[1].ciphers) = MinOf(gens[1].count, Len(FALLBACK_CIPHERS))
            /\ NoTemplateTwice(gens[1].ciphers))
    /\ [](gens # <<>> => gens[1].probes < Len(FALLBACK_CIPHERS))

\* A call for more ciphers than there are templates has returned, after a
\* draw that had to probe past the last index.
C39_Witness ==
    /\ PoolReturned
    /\ gens[1].count > Len(FALLBACK_CIPHERS)
    /\ Len(gens[1].ciphers) = Len(FALLBACK_CIPHERS)
    /\ gens[1].index < gens[1].probes

\* ------------------------------------------------ takes, two in flight
\* The two generation routes called while the AI services are not
\* configured and the stored pool is at its floor, the second call not
\* waiting for the first: every await of selectFallbackCipher is a point
\* where the other call runs.  Time stands still.
MaxSharedCalls == 2

SharedStart(route) == GenStartWhen(route, FALSE, Len(gens) < MaxSharedCalls)

NextShared ==
    \/ \E route \in {"scheduler", "api"} : SharedStart(route)
    \/ \E i \in DOMAIN gens, ok \in BOOLEAN : GenBackup(i, ok)
    \/ \E i \in DOMAIN gens, ok \in BOOLEAN : FallbackGet(i, ok)
    \/ \E i \in DOMAIN gens, ok \in BOOLEAN : FallbackRefill(i, ok)
    \/ \E i \in DOMAIN gens, ok \in BOOLEAN : FallbackPut(i, ok)
    \/ \E i \in DOMAIN gens, ok \in BOOLEAN : GenStore(i, ok)

SpecShared == InitTake /\ [][NextShared]_vars

\* C35: two calls of selectFallbackCipher that each returned a cipher of the
\* pool returned ciphers with different ids, and neither cipher is in the
\* stored pool afterwards.
C35_TakesDisjoint ==
    \A i, j \in DOMAIN gens :
        (i # j /\ Taken(i) /\ Taken(j)) =>
            /\ gens[i].result[1].id # gens[j].result[1].id
            /\ gens[i].result[1].id \notin PoolIds(pool.items)
            /\ gens[j].result[1].id \notin PoolIds(pool.items)

\* ------------------------------------------- votes around the expiration
\* One cipher with its guesses stored, votes by every user on every guess
\* at any time, each taken step by step, and the expireCiphers job, while
\* the clock passes the lockdown and the expiry of the cipher.
MaxLateRallies == 3
MaxLateTicks == 1

LateStart == SchedStartWhen(sched.ticks < MaxLateTicks)

LateBegin(u, g) == RallyBeginWhen(u, g, RalliesStarted < MaxLateRallies)

NextLate ==
    \/ AdvanceTime
    \/ \E u \in Users, g \in GuessIds : LateBegin(u, g)
    \/ \E r \in BagToSet(rallyReqs) : RallyAdd(r)
    \/ \E r \in BagToSet(rallyReqs) : RallyIncrement(r)
    \/ LateStart
    \/ SchedReadNow
    \/ SchedVisit
    \/ SchedDetermine
    \/ SchedMarkExpired
    \/ SchedSendExpired
    \/ SchedMarkWinner
    \/ SchedUserSolves
    \/ SchedBreadcrumb
    \/ SchedComment

SpecLate == InitVoteOver(GuessIds) /\ [][NextLate]_vars

\* g is ahead of h in the order of winner determination, or level with it.
NotBehind(g, h) ==
    \/ guesses[g].rallyCount > guesses[h].rallyCount
    \/ /\ guesses[g].rallyCount = guesses[h].rallyCount
       /\ guesses[g].createdAt <= guesses[h].createdAt

\* C34: once the expiration of a cipher has been handled, the guess flagged
\* isWinner has, in every later state, the highest stored rallyCount of the
\* cipher's guesses (the earliest createdAt among the highest).
C34_WinnerStaysMaximal ==
    \A g \in DOMAIN guesses :
        (guesses[g].isWinner /\ Handled(guesses[g].cipherId)) =>
            \A h \in DOMAIN guesses :
                guesses[h].cipherId = guesses[g].cipherId => NotBehind(g, h)

\* --------------------------------------------- requests and their answers
\* POST /api/submit-guess and POST /api/rally-guess, one request handled to
\* its answer at a time, each handler as the list of its steps in the order
\* of the code: a step that answers ends the request, and the steps before
\* it are the ones that ran.  The browser keeps the answer it got last
\* (client.answer).  A user with nine votes counted, stored guesses, and the
\* clock going to the expiry of the cipher.
MaxRejectRequests == 6
MaxRejectClock == 1
UnknownCipher == MaxCiphers + 1
UnknownGuess == RALLY_LIMIT + 2
RejectTexts == {<<>>, <<"a">>, <<"<">>, <<" ", " ">>}

\* The counter of the rate limit incremented before the cipher is read.
SubmitStepsCountFirst ==
    <<"validateGuess", "rateLimit", "incrBy", "getCipher", "isActive", "storeGuess">>

SubmitSteps ==
    <<"validateGuess", "rateLimit", "getCipher", "isActive", "storeGuess", "incrBy">>

RallySteps ==
    <<"rateLimit", "hasUserRallied", "hGetAll", "addRally",
      "incrementRallyCount", "send", "incrBy">>

\* The status a step of submit-guess answers with, 0 when it goes on.
SubmitCheck(step, u, cid, content) ==
    CASE step = "validateGuess" ->
            IF content = <<>> \/ ~validateGuess(content).isValid THEN 400 ELSE 0
      [] step = "rateLimit" -> IF GuessRateLimited(u) THEN 429 ELSE 0
      [] step = "getCipher" -> IF ~CipherStored(cid) THEN 404 ELSE 0
      [] step = "isActive" ->
            IF CipherStored(cid)
                 /\ (~ciphers[cid].isActive \/ ciphers[cid].expiresAt <= now)
            THEN 400 ELSE 0
      [] OTHER -> 0

\* The status a step of rally-guess answers with, 0 when it goes on.
RallyCheck(step, u, g) ==
    CASE step = "rateLimit" ->
            IF RateRead("rally", u) >= RALLY_LIMIT THEN 429 ELSE 0
      [] step = "hasUserRallied" -> IF hasUserRallied(u, g) THEN 400 ELSE 0
      [] step = "hGetAll" -> IF g \notin DOMAIN guesses THEN 404 ELSE 0
      [] OTHER -> 0

\* The first step that answers, Len(steps) + 1 when none does.
StopsAt(steps, Check(_)) ==
    LET stops == {k \in DOMAIN steps : Check(steps[k]) # 0}
    IN IF stops = {} THEN Len(steps) + 1
       ELSE CHOOSE k \in stops : \A m \in stops : k <= m

Ran(steps, stop) == {steps[k] : k \in 1..(stop - 1)}

ReqSubmit(u, cid, content) ==
    /\ client.requests < MaxRejectRequests
    /\ LET Check(step) == SubmitCheck(step, u, cid, content)
           stop == StopsAt(SubmitSteps, Check)
           ran == Ran(SubmitSteps, stop)
           validation == validateGuess(content)
       IN /\ IF "storeGuess" \in ran
             THEN saveGuess([id |-> Cardinality(DOMAIN guesses) + 1,
                             cipherId |-> cid,
                             userId |-> u,
                             content |-> IF validation.sanitized # <<>>
                                         THEN validation.sanitized
                                         ELSE Trim(content),
                             rallyCount |-> 0,
                             createdAt |-> now,
                             isWinner |-> FALSE])
             ELSE UNCHANGED guessVars
          /\ IF "incrBy" \in ran
             THEN rateLimit' = RateBump("guess", u)
             ELSE UNCHANGED rateLimit
          /\ client' = [client EXCEPT
                          !.requests = @ + 1,
                          !.answer = [route |-> "submit-guess", userId |-> u,
                                      status |-> IF stop > Len(SubmitSteps) THEN 200
                                                 ELSE Check(SubmitSteps[stop])]]
    /\ UNCHANGED <<genVars, clockVars, cipherVars, userRallies, profiles,
                   narrativeVars, outVars, reqVars, sched>>

ReqRally(u, g) ==
    /\ client.requests < MaxRejectRequests
    /\ LET Check(step) == RallyCheck(step, u, g)
           stop == StopsAt(RallySteps, Check)
           ran == Ran(RallySteps, stop)
       IN /\ IF "addRally" \in ran
             THEN userRallies' = addRally([guessId |-> g, userId |-> u,
                                           createdAt |-> now])
             ELSE UNCHANGED userRallies
          /\ IF "incrementRallyCount" \in ran
             THEN guesses' = incrementRallyCount(guesses, g)
             ELSE UNCHANGED guesses
          /\ IF "send" \in ran
             THEN rallyUpdates' = [rallyUpdates EXCEPT ![g] =
                                     Append(@, guesses'[g].rallyCount)]
             ELSE UNCHANGED rallyUpdates
          /\ IF "incrBy" \in ran
             THEN rateLimit' = RateBump("rally", u)
             ELSE UNCHANGED rateLimit
          /\ IF stop > Len(RallySteps)
             THEN rallyAnswers' = [rallyAnswers EXCEPT ![u][g].accepted = @ + 1]
             ELSE UNCHANGED rallyAnswers
          /\ client' = [client EXCEPT
                          !.requests = @ + 1,
                          !.answer = [route |-> "rally-guess", userId |-> u,
                                      status |-> IF stop > Len(RallySteps) THEN 200
                                                 ELSE Check(RallySteps[stop])]]
    /\ UNCHANGED <<genVars, clockVars, cipherVars, cipherGuesses, profiles,
                   narrativeVars, realtime, comments, rallyReqs, sched>>

\* The clock reaches the expiry of the cipher.
RejectClock ==
    /\ clockSteps < MaxRejectClock
    /\ now' = SampleCipher.expiresAt
    /\ clockSteps' = clockSteps + 1
    /\ UNCHANGED <<client, genVars, cipherVars, guessVars, userRallies, rateLimit,
                   profiles, narrativeVars, outVars, reqVars, sched>>

NextReject ==
    \/ \E u \in Users, cid \in CipherIds \cup {UnknownCipher},
          content \in RejectTexts : ReqSubmit(u, cid, content)
    \/ \E u \in Users, g \in (RaceGuessIds \ RaceVoted) \cup {1, UnknownGuess} :
          ReqRally(u, g)
    \/ RejectClock

SpecReject == InitRace /\ [][NextReject]_vars

\* The request answered in this step was rejected.
Rejects ==
    /\ client'.requests # client.requests
    /\ client'.answer.status # 200

\* C36: a request that is rejected stores no guess, changes no guess index,
\* no rallyCount, no rally record and no rate-limit counter.
C36_RejectedChangesNothing ==
    [][Rejects =>
         /\ guesses' = guesses
         /\ cipherGuesses' = cipherGuesses
         /\ userRallies' = userRallies
         /\ rateLimit' = rateLimit]_vars

\* The sixth submission of a user in a minute, answered 429 after five
\* were stored.
C36_Witness ==
    /\ client.answer # <<>>
    /\ client.answer.route = "submit-guess"
    /\ client.answer.status = 429
    /\ RateRead("guess", client.answer.userId) = GUESS_LIMIT

====
